---------------------------- MODULE Spec2Model ----------------------------
(***************************************************************************)
(* State-machine model of the stand-alone FastAPI scripts of the           *)
(* repository.  Every script owns its own store; a run serves exactly one  *)
(* script, selected by the variable app.  Each request handler is one      *)
(* action (handlers run to completion here; the request bodies are the     *)
(* already parsed pydantic objects).                                       *)
(*                                                                         *)
(* Encoding of Python values:                                              *)
(*   Optional[T]            None == <<>>,  Some(v) == <<v>>                *)
(*   model_dump(exclude_unset=True)                                        *)
(*                          a body is a record over all fields of the      *)
(*                          schema; a field is Unset (absent from the      *)
(*                          request) or Given(x) with x an Optional value  *)
(*   str that is stripped or matched                                       *)
(*                          a sequence of one-character strings            *)
(***************************************************************************)
EXTENDS Integers, Sequences, FiniteSets, TLC

VARIABLES
    app,            \* the script being served
    resp,           \* the response of the last handled request
    created_ids,    \* history: ids returned by the creates of main18 and main24, in order
    deleted_ids,    \* history: ids removed by a successful hard delete
    orders,         \* main18: the list orders
    next_id18,      \* main18: the global next_id
    items_db,       \* main24: the list items_db
    next_id24,      \* main24: the global next_id
    items2,         \* main2: the dictionary items
    items4,         \* main4: the dictionary items
    now,            \* main25, main26: the value stored for datetime.utcnow()
    db_type,        \* main25: the database selected by get_database_url
    items25,        \* main25: the committed rows of table items
    seq25,          \* main25: the id sequence of a server database
    users20,        \* main20: the committed rows of table users
    products26,     \* main26: the committed rows of table products
    seq26,          \* main26: the AUTO_INCREMENT counter of table products
    users21,        \* main21: the dictionary fake_users_db
    ws22,           \* main22: the websocket connection and its coroutine
    mail22,         \* main22: the background tasks and the emails sent
    workers         \* the requests in progress in the thread pool, by thread

vars == <<app, resp, created_ids, deleted_ids, orders, next_id18,
          items_db, next_id24, items2, items4, now, db_type, items25, seq25,
          users20, products26, seq26, users21, ws22, mail22, workers>>

vars18 == <<orders, next_id18>>
vars24 == <<items_db, next_id24>>
vars2  == <<items2>>
vars4  == <<items4>>
vars25 == <<db_type, items25, seq25>>
vars20 == <<users20>>
vars26 == <<products26, seq26>>
vars21 == <<users21>>
vars22 == <<ws22, mail22>>

\* a step of a request in progress leaves the stores of the other scripts
\* alone
Others18 == UNCHANGED <<app, vars24, vars2, vars4, now, vars25, vars20,
                     vars26, vars21, vars22>>
Others24 == UNCHANGED <<app, vars18, vars2, vars4, now, vars25, vars20,
                     vars26, vars21, vars22>>
Others2  == UNCHANGED <<app, vars18, vars24, vars4, now, vars25, vars20,
                     vars26, vars21, vars22>>
Others25 == UNCHANGED <<app, vars18, vars24, vars2, vars4, vars20, vars26,
                     vars21, vars22>>

\* a handler of one script that runs to completion leaves the stores of the
\* other scripts and the requests in progress alone
Only18 == UNCHANGED <<app, workers, vars24, vars2, vars4, now, vars25,
                     vars20, vars26, vars21, vars22>>
Only24 == UNCHANGED <<app, workers, vars18, vars2, vars4, now, vars25,
                     vars20, vars26, vars21, vars22>>
Only2  == UNCHANGED <<app, workers, vars18, vars24, vars4, now, vars25,
                     vars20, vars26, vars21, vars22>>
Only4  == UNCHANGED <<app, workers, vars18, vars24, vars2, now, vars25,
                     vars20, vars26, vars21, vars22>>
Only25 == UNCHANGED <<app, workers, vars18, vars24, vars2, vars4, vars20,
                     vars26, vars21, vars22>>
Only20 == UNCHANGED <<app, workers, vars18, vars24, vars2, vars4, now,
                     vars25, vars26, vars21, vars22>>
Only26 == UNCHANGED <<app, workers, vars18, vars24, vars2, vars4, vars25,
                     vars20, vars21, vars22>>

----------------------------------------------------------------------------
(* Bounds of the model *)

\* ids a store hands out are capped: a create is taken only while the id it
\* would assign is at most the bound of its script
MaxId18 == 2
MaxId24 == 3
MaxId2 == 3
MaxId4 == 2
\* the specification of the full replace of main24 runs on at most this many
\* items
MaxRows24 == 2
\* the requests that run at the same time: the threads 1..NumThreads of the
\* pool that runs the def handlers
NumThreads == 2
MaxId25 == 2
MaxId20 == 3
MaxId26 == 2
\* the specification of read_items fills the table with at most this many rows
MaxRowsList == 2
\* the clock takes the values 0..MaxTime
MaxTime == 1
\* read_items is asked for the pages 1..MaxPage with per_page in 1..MaxPerPage
MaxPage == 3
MaxPerPage == 2
\* a partial-update body sets at most this many fields
MaxPatchFields == 2
\* the specification of the partial updates runs on stores of at most this
\* many records
MaxRowsUpdate == 1

----------------------------------------------------------------------------
(* Python values *)

None == <<>>
Some(v) == <<v>>
IsNone(o) == o = <<>>
Unset == <<>>
Given(o) == <<o>>
IsSet(x) == x # <<>>

\* the keys of model_dump(exclude_unset=True)
SetFields(body) == {f \in DOMAIN body : IsSet(body[f])}

\* mutant of ApplyUpdate: the body is dumped without exclude_unset, so a field
\* the request leaves out arrives as None
ApplyUpdate_DumpAll(rec, body) ==
    [f \in DOMAIN rec |->
        IF f \in DOMAIN body
        THEN (IF IsSet(body[f]) THEN body[f][1] ELSE None)
        ELSE rec[f]]

\* dict.update / model_copy(update=...) / the setattr loop: the fields the body
\* sets take the body's value, every other field keeps the record's value
ApplyUpdate(rec, body) ==
    [f \in DOMAIN rec |->
        IF f \in DOMAIN body /\ IsSet(body[f]) THEN body[f][1] ELSE rec[f]]

\* str.strip() on a sequence of characters
RECURSIVE LStrip(_)
LStrip(s) == IF s # <<>> /\ Head(s) = " " THEN LStrip(Tail(s)) ELSE s
RECURSIVE RStrip(_)
RStrip(s) ==
    IF s # <<>> /\ s[Len(s)] = " " THEN RStrip(SubSeq(s, 1, Len(s) - 1)) ELSE s
Strip(s) == RStrip(LStrip(s))

\* the index of the first element of a list whose id is the given one, 0 if none
\* (for i, x in enumerate(lst): if x.id == id)
FirstIndex(lst, id) ==
    IF \E i \in 1..Len(lst) : lst[i].id = id
    THEN CHOOSE i \in 1..Len(lst) :
            /\ lst[i].id = id
            /\ \A j \in 1..(i - 1) : lst[j].id # id
    ELSE 0

\* del lst[i]
DelAt(lst, i) == SubSeq(lst, 1, i - 1) \o SubSeq(lst, i + 1, Len(lst))

SetMax(S) == CHOOSE m \in S : \A x \in S : x <= m

\* a handler's answer: the status code, the id it is about (0 if none), the
\* returned body, and the detail of an HTTPException
Response(op, status, id, body) ==
    [op |-> op, status |-> status, id |-> id, body |-> body, detail |-> ""]

Error(op, status, id, detail) ==
    [op |-> op, status |-> status, id |-> id, body |-> <<>>, detail |-> detail]

NoResponse == Response("none", 0, 0, <<>>)

----------------------------------------------------------------------------
(* main18: orders in a list, ids from the counter next_id *)

OrderStatus == {"pending", "shipped"}

OrderCreate ==
    [item : {<<"a">>, <<" ">>},
     quantity : {1},
     price : {5, 100001},
     customer_email : {None},
     notes : {None, Some("n")}]

OrderUpdate ==
    {u \in [item : {Unset, Given(Some(<<"b">>)), Given(Some(<<" ">>))},
            quantity : {Unset, Given(Some(2))},
            price : {Unset, Given(Some(10))},
            status : {Unset, Given(Some("shipped"))},
            customer_email : {Unset, Given(Some("e"))},
            notes : {Unset, Given(None), Given(Some("n"))}] :
        Cardinality(SetFields(u)) <= MaxPatchFields}

\* Order.item_must_not_be_empty and Order.reasonable_price
OrderValid(order_data) ==
    /\ Strip(order_data.item) # <<>>
    /\ order_data.price <= 100000

\* Order(id=next_id, ...): item is stored stripped, status takes its default
NewOrder(id, order_data) ==
    [id |-> id,
     item |-> Some(Strip(order_data.item)),
     quantity |-> Some(order_data.quantity),
     price |-> Some(order_data.price),
     status |-> Some("pending"),
     customer_email |-> order_data.customer_email,
     notes |-> order_data.notes]

\* OrderUpdate.non_empty_item: a whitespace-only item is refused when the body
\* is parsed, an accepted item is stripped
OrderUpdateValid(update) ==
    ~IsSet(update.item) \/ IsNone(update.item[1])
        \/ Strip(update.item[1][1]) # <<>>

OrderUpdateParsed(update) ==
    IF IsSet(update.item) /\ ~IsNone(update.item[1])
    THEN [update EXCEPT !.item = Given(Some(Strip(update.item[1][1])))]
    ELSE update

\* mutant of NewId18: the id is derived from the orders present, as main2 does
NewId18_FromMax ==
    IF orders = <<>> THEN 1
    ELSE SetMax({orders[i].id : i \in DOMAIN orders}) + 1

\* id=next_id
NewId18 == next_id18

create_order(order_data) ==
    /\ app = "main18"
    /\ next_id18 <= MaxId18
    /\ IF OrderValid(order_data)
       THEN LET order == NewOrder(NewId18, order_data) IN
            /\ orders' = Append(orders, order)
            /\ next_id18' = next_id18 + 1
            /\ resp' = Response("create_order", 200, order.id, <<order>>)
            /\ created_ids' = Append(created_ids, order.id)
       ELSE /\ resp' = Error("create_order", 500, 0, "Internal Server Error")
            /\ UNCHANGED <<orders, next_id18, created_ids>>
    /\ UNCHANGED <<deleted_ids>>
    /\ Only18

update_order(order_id, update) ==
    /\ app = "main18"
    /\ IF ~OrderUpdateValid(update)
       THEN /\ resp' = Error("update_order", 422, order_id, "validation error")
            /\ UNCHANGED orders
       ELSE LET i == FirstIndex(orders, order_id) IN
            IF i = 0
            THEN /\ resp' = Error("update_order", 404, order_id, "Order not found")
                 /\ UNCHANGED orders
            ELSE LET updated_order ==
                        ApplyUpdate(orders[i], OrderUpdateParsed(update)) IN
                 /\ orders' = [orders EXCEPT ![i] = updated_order]
                 /\ resp' = Response("update_order", 200, order_id,
                                     <<updated_order>>)
    /\ UNCHANGED <<next_id18, created_ids, deleted_ids>>
    /\ Only18

delete_order(order_id) ==
    /\ app = "main18"
    /\ LET i == FirstIndex(orders, order_id) IN
       IF i = 0
       THEN /\ resp' = Error("delete_order", 404, order_id, "Order not found")
            /\ UNCHANGED <<orders, deleted_ids>>
       ELSE /\ orders' = DelAt(orders, i)
            /\ deleted_ids' = deleted_ids \cup {order_id}
            /\ resp' = Response("delete_order", 200, order_id, <<>>)
    /\ UNCHANGED <<next_id18, created_ids>>
    /\ Only18

get_order(order_id) ==
    /\ app = "main18"
    /\ LET i == FirstIndex(orders, order_id) IN
       IF i = 0
       THEN resp' = Error("get_order", 404, order_id, "Order not found")
       ELSE resp' = Response("get_order", 200, order_id, <<orders[i]>>)
    /\ UNCHANGED <<vars18, created_ids, deleted_ids>>
    /\ Only18

\* o.price >= min_price and o.price <= max_price raise TypeError on an order
\* whose price is None
HasNoPrice(lst) == \E i \in DOMAIN lst : IsNone(lst[i].price)

\* get_orders: the three list comprehensions, each over the result of the one
\* before; a TypeError is answered with 500.  The list returned is the field
\* items of the body
get_orders(status, min_price, max_price) ==
    /\ app = "main18"
    /\ LET has_status(o) == o.status = status
           above(o) == o.price[1] >= min_price[1]
           below(o) == o.price[1] <= max_price[1]
           by_status == IF IsNone(status) THEN orders
                        ELSE SelectSeq(orders, has_status)
           by_min == IF IsNone(min_price) THEN by_status
                     ELSE SelectSeq(by_status, above) IN
       IF ~IsNone(min_price) /\ HasNoPrice(by_status)
       THEN resp' = Error("get_orders", 500, 0, "Internal Server Error")
       ELSE IF ~IsNone(max_price) /\ HasNoPrice(by_min)
       THEN resp' = Error("get_orders", 500, 0, "Internal Server Error")
       ELSE resp' = Response("get_orders", 200, 0,
                <<[items |-> IF IsNone(max_price) THEN by_min
                             ELSE SelectSeq(by_min, below)]>>)
    /\ UNCHANGED <<vars18, created_ids, deleted_ids>>
    /\ Only18

\* the bodies and the query parameters get_orders is tried with: a patch of
\* the status, of the price, or of the price with null
OrderUpdateFilter ==
    {u \in [item : {Unset}, quantity : {Unset},
            price : {Unset, Given(Some(10)), Given(None)},
            status : {Unset, Given(Some("shipped"))},
            customer_email : {Unset}, notes : {Unset}] :
        Cardinality(SetFields(u)) = 1}
Statuses18 == {None, Some("pending"), Some("shipped")}
Prices18 == {None, Some(5), Some(10)}

\* main18 with the list and the handlers that fill and change it
NextFilter18 ==
    \/ \E order_data \in OrderCreate : create_order(order_data)
    \/ \E order_id \in 1..MaxId18, update \in OrderUpdateFilter :
            update_order(order_id, update)
    \/ \E order_id \in 1..MaxId18 : delete_order(order_id)
    \/ \E status \in Statuses18, min_price \in Prices18,
          max_price \in Prices18 :
            get_orders(status, min_price, max_price)

Next18 ==
    \/ \E order_data \in OrderCreate : create_order(order_data)
    \/ \E order_id \in 1..MaxId18, update \in OrderUpdate :
            update_order(order_id, update)
    \/ \E order_id \in 1..MaxId18 : delete_order(order_id)

----------------------------------------------------------------------------
(* main24: items in a list, ids from the counter next_id *)

Item24 ==
    [name : {"a", "b"},
     price : {50, 150},
     description : {None, Some("d")},
     in_stock : BOOLEAN]

\* the JSON bodies of Item: description and in_stock may be left out
Item24Body ==
    [name : {"a", "b"},
     price : {50, 150},
     description : {Unset, Given(None), Given(Some("d"))},
     in_stock : {Unset, Given(TRUE), Given(FALSE)}]

\* Item(**body): a field the body leaves out takes its default
ParseItem24(body) ==
    [name |-> body.name,
     price |-> body.price,
     description |-> IF IsSet(body.description) THEN body.description[1] ELSE None,
     in_stock |-> IF IsSet(body.in_stock) THEN body.in_stock[1] ELSE TRUE]

\* mutant of ItemResponse24: the description of the item is not copied
ItemResponse24_NoDescription(id, item) ==
    [id |-> id, name |-> item.name, price |-> item.price,
     description |-> None, in_stock |-> item.in_stock]

\* ItemResponse(id=..., **item.dict())
ItemResponse24(id, item) ==
    [id |-> id, name |-> item.name, price |-> item.price,
     description |-> item.description, in_stock |-> item.in_stock]

create_item24(item) ==
    /\ app = "main24"
    /\ next_id24 <= MaxId24
    /\ LET item_with_id == ItemResponse24(next_id24, item) IN
       /\ items_db' = Append(items_db, item_with_id)
       /\ next_id24' = next_id24 + 1
       /\ resp' = Response("create_item", 200, item_with_id.id, <<item_with_id>>)
       /\ created_ids' = Append(created_ids, item_with_id.id)
    /\ UNCHANGED <<deleted_ids>>
    /\ Only24

update_item24(item_id, item) ==
    /\ app = "main24"
    /\ LET i == FirstIndex(items_db, item_id) IN
       IF i = 0
       THEN /\ resp' = Error("update_item", 404, item_id, "Item not found")
            /\ UNCHANGED items_db
       ELSE LET updated_item == ItemResponse24(item_id, item) IN
            /\ items_db' = [items_db EXCEPT ![i] = updated_item]
            /\ resp' = Response("update_item", 200, item_id, <<updated_item>>)
    /\ UNCHANGED <<next_id24, created_ids, deleted_ids>>
    /\ Only24

delete_item24(item_id) ==
    /\ app = "main24"
    /\ LET i == FirstIndex(items_db, item_id) IN
       IF i = 0
       THEN /\ resp' = Error("delete_item", 404, item_id, "Item not found")
            /\ UNCHANGED <<items_db, deleted_ids>>
       ELSE /\ items_db' = DelAt(items_db, i)
            /\ deleted_ids' = deleted_ids \cup {item_id}
            /\ resp' = Response("delete_item", 200, item_id, <<>>)
    /\ UNCHANGED <<next_id24, created_ids>>
    /\ Only24

read_item24(item_id) ==
    /\ app = "main24"
    /\ LET i == FirstIndex(items_db, item_id) IN
       IF i = 0
       THEN resp' = Error("read_item", 404, item_id, "Item not found")
       ELSE resp' = Response("read_item", 200, item_id, <<items_db[i]>>)
    /\ UNCHANGED <<vars24, created_ids, deleted_ids>>
    /\ Only24

\* the handler get_expensive_item
get_expensive_item(item_id) ==
    /\ app = "main24"
    /\ LET i == FirstIndex(items_db, item_id) IN
       IF i = 0
       THEN resp' = Error("get_expensive_item", 404, item_id, "Item not found")
       ELSE IF items_db[i].price <= 100
       THEN resp' = Error("get_expensive_item", 400, item_id,
                          "Item is not expensive enough")
       ELSE resp' = Response("get_expensive_item", 200, item_id,
                             <<items_db[i]>>)
    /\ UNCHANGED <<vars24, created_ids, deleted_ids>>
    /\ Only24

\* the routes for GET /items/{item_id}, in the order the decorators add them
\* to the app
GetItemRoutes24 == <<"read_item", "get_expensive_item">>

\* GET /items/{item_id}: the router hands the request to the first route that
\* matches the method and the path
get_item24(item_id) ==
    IF Head(GetItemRoutes24) = "read_item"
    THEN read_item24(item_id)
    ELSE get_expensive_item(item_id)

\* main24 with its requests, GET /items/{item_id} among them
NextGet24 ==
    \/ \E item \in Item24 : next_id24 <= MaxRows24 /\ create_item24(item)
    \/ \E item_id \in 1..MaxRows24, item \in Item24 :
            update_item24(item_id, item)
    \/ \E item_id \in 1..MaxRows24 : delete_item24(item_id)
    \/ \E item_id \in 1..MaxRows24 : get_item24(item_id)

Next24 ==
    \/ \E item \in Item24 : create_item24(item)
    \/ \E item_id \in 1..MaxId24, item \in Item24 : update_item24(item_id, item)
    \/ \E item_id \in 1..MaxId24 : delete_item24(item_id)

----------------------------------------------------------------------------
(* main2: items in a dictionary, ids from max(keys) + 1 *)

Payload2 == {"ammu", "ammulu", "x"}

\* max(items.keys(), default=0) + 1
NextKey2(d) == IF DOMAIN d = {} THEN 1 ELSE SetMax(DOMAIN d) + 1

\* items[item_id] = item
DictPut(d, k, v) == [x \in DOMAIN d \cup {k} |-> IF x = k THEN v ELSE d[x]]

\* del items[item_id]
DictDel(d, k) == [x \in DOMAIN d \ {k} |-> d[x]]

create_item2(item) ==
    /\ app = "main2"
    /\ LET item_id == NextKey2(items2) IN
       /\ item_id <= MaxId2
       /\ items2' = DictPut(items2, item_id, item)
       /\ resp' = Response("create_item", 200, item_id, <<item>>)
    /\ UNCHANGED <<created_ids, deleted_ids>>
    /\ Only2

update_item2(item_id, item) ==
    /\ app = "main2"
    /\ items2' = DictPut(items2, item_id, item)
    /\ resp' = Response("update_item", 200, item_id, <<item>>)
    /\ UNCHANGED <<created_ids, deleted_ids>>
    /\ Only2

delete_item2(item_id) ==
    /\ app = "main2"
    /\ IF item_id \in DOMAIN items2
       THEN /\ items2' = DictDel(items2, item_id)
            /\ deleted_ids' = deleted_ids \cup {item_id}
            /\ resp' = Response("delete_item", 200, item_id, <<>>)
       ELSE /\ resp' = Error("delete_item", 404, item_id, "Item not found .....")
            /\ UNCHANGED <<items2, deleted_ids>>
    /\ UNCHANGED <<created_ids>>
    /\ Only2

Next2 ==
    \/ \E item \in Payload2 : create_item2(item)
    \/ \E item_id \in 0..MaxId2, item \in Payload2 : update_item2(item_id, item)
    \/ \E item_id \in 0..MaxId2 : delete_item2(item_id)

----------------------------------------------------------------------------
(* main4: items in a dictionary, ids from max(keys) + 1, no delete *)

Item4 ==
    [name : {"a", "b"},
     description : {"", "d"},
     price : {0, 5}]

create_item4(item) ==
    /\ app = "main4"
    /\ LET item_id == NextKey2(items4) IN
       /\ item_id <= MaxId4
       /\ items4' = DictPut(items4, item_id, item)
       /\ resp' = Response("create_item", 200, item_id, <<item>>)
    /\ UNCHANGED <<created_ids, deleted_ids>>
    /\ Only4

update_item4(item_id, item) ==
    /\ app = "main4"
    /\ IF item_id \notin DOMAIN items4
       THEN /\ resp' = Error("update_item", 404, item_id, "Item not found")
            /\ UNCHANGED items4
       ELSE /\ items4' = DictPut(items4, item_id, item)
            /\ resp' = Response("update_item", 200, item_id, <<item>>)
    /\ UNCHANGED <<created_ids, deleted_ids>>
    /\ Only4

Next4 ==
    \/ \E item \in Item4 : create_item4(item)
    \/ \E item_id \in 0..MaxId4, item \in Item4 : update_item4(item_id, item)

----------------------------------------------------------------------------
(* The clock read by datetime.utcnow(): it never runs backwards here, and   *)
(* two requests may store the same value (a MySQL DATETIME column keeps     *)
(* whole seconds)                                                           *)

Tick ==
    /\ app \in {"main25", "main26"}
    /\ now < MaxTime
    /\ now' = now + 1
    /\ UNCHANGED <<app, resp, created_ids, deleted_ids, vars18, vars24, vars2, vars4,
                   vars25, vars20, vars26, vars21, vars22, workers>>

----------------------------------------------------------------------------
(* main25: table items behind a SQLAlchemy session; every handler commits   *)
(* at most once, so items25 is the committed table                          *)

\* DB_TYPE: the default SQLite file, or a server database (MySQL's
\* AUTO_INCREMENT hands out ids as PostgreSQL's sequence does)
DbTypes == {"sqlite", "postgresql"}

\* the request bodies the handlers are tried on: values of the ItemCreate and
\* ItemUpdate schemas.  The specification of the mutating handlers varies
\* name, description, price and is_active; the specification of read_items
\* varies name, category and is_active
Names25 == {<<"a">>, <<"a", "b">>}

ItemCreate ==
    [name : Names25,
     description : {None, Some(<<"b">>)},
     price : {None, Some("9.99")},
     category : {Some(<<"c">>)},
     is_active : BOOLEAN]

ItemUpdate ==
    {u \in [name : {Unset, Given(None)} \cup {Given(Some(n)) : n \in Names25},
            description : {Unset, Given(None), Given(Some(<<"b">>))},
            price : {Unset, Given(Some("9.99"))},
            category : {Unset},
            is_active : {Unset, Given(None), Given(Some(TRUE)),
                         Given(Some(FALSE))}] :
        Cardinality(SetFields(u)) <= MaxPatchFields}

NamesList25 == {<<"a">>, <<"b">>, <<"a", "b">>}

ItemCreateList ==
    [name : NamesList25,
     description : {None},
     price : {None},
     category : {None, Some(<<"c">>)},
     is_active : BOOLEAN]

\* db.query(Item).filter(Item.id == item_id).first(): the rows with that id
ById25(item_id) == {r \in items25 : r.id = item_id}

\* db.query(Item).filter(Item.name == name): name is an Optional value, and a
\* comparison with None selects the rows whose name is NULL
ByName25(name) == {r \in items25 : r.name = name}

\* the primary key the database gives a new row: SQLite's rowid is
\* max(rowid) + 1, a server database draws from a sequence
NewId25 ==
    IF db_type = "sqlite"
    THEN IF items25 = {} THEN 1 ELSE SetMax({r.id : r \in items25}) + 1
    ELSE seq25

\* Item(**item.model_dump()) as inserted by db.commit(): the column defaults
\* give created_at and updated_at
NewItem25(id, item) ==
    [id |-> id,
     name |-> Some(item.name),
     description |-> item.description,
     price |-> item.price,
     category |-> item.category,
     is_active |-> Some(item.is_active),
     created_at |-> now,
     updated_at |-> now]

\* the columns declared nullable=False
NotNull25(row) == ~IsNone(row.name) /\ ~IsNone(row.is_active)

\* mutant of NameExists25: the check for an existing name is missing
NameExists25_Never(name) == FALSE

\* create_item's check: existing_item, the first row with the new item's name
NameExists25(name) == ByName25(Some(name)) # {}

\* mutant of NameTaken25: the item that is updated is not excluded
NameTaken25_AnyId(name, item_id) == ByName25(name) # {}

\* mutant of NameTaken25: the comparison of the ids is inverted
NameTaken25_SameId(name, item_id) ==
    {r \in ByName25(name) : r.id = item_id} # {}

\* update_item's check: existing_item, the first row with the body's name and
\* another id
NameTaken25(name, item_id) == {r \in ByName25(name) : r.id # item_id} # {}

create_item(item) ==
    /\ app = "main25"
    /\ IF NameExists25(item.name)
       THEN /\ resp' = Error("create_item", 400, 0, "Item already exists")
            /\ UNCHANGED <<items25, seq25>>
       ELSE LET db_item == NewItem25(NewId25, item) IN
            /\ items25' = items25 \cup {db_item}
            /\ seq25' = IF db_type = "sqlite" THEN seq25 ELSE seq25 + 1
            /\ resp' = Response("create_item", 201, db_item.id, <<db_item>>)
    /\ UNCHANGED <<now, db_type, created_ids, deleted_ids>>
    /\ Only25

read_item(item_id) ==
    /\ app = "main25"
    /\ IF ById25(item_id) = {}
       THEN resp' = Error("read_item", 404, item_id, "Item not found")
       ELSE \E db_item \in ById25(item_id) :
                resp' = Response("read_item", 200, item_id, <<db_item>>)
    /\ UNCHANGED <<now, vars25, created_ids, deleted_ids>>
    /\ Only25

\* SQL LIKE on sequences of characters: % matches any run of characters,
\* _ any one character
RECURSIVE Like(_, _)
Like(pattern, str) ==
    IF pattern = <<>> THEN str = <<>>
    ELSE IF Head(pattern) = "%"
         THEN Like(Tail(pattern), str)
                \/ (str # <<>> /\ Like(pattern, Tail(str)))
    ELSE /\ str # <<>>
         /\ Head(pattern) = "_" \/ Head(pattern) = Head(str)
         /\ Like(Tail(pattern), Tail(str))

\* column.like(pattern): NULL for a NULL column, which a filter does not keep
ColumnLike(col, pattern) == ~IsNone(col) /\ Like(pattern, col[1])

\* Python's truth value of an Optional[str] parameter: None and "" are false
Truthy(o) == ~IsNone(o) /\ o[1] # <<>>

\* mutant of Matches25: the active_only filter is not applied
Matches25_AllRows(r, category, active_only, search) ==
    /\ Truthy(category) => r.category = category
    /\ Truthy(search) =>
        LET search_term == <<"%">> \o search[1] \o <<"%">> IN
        ColumnLike(r.name, search_term) \/ ColumnLike(r.description, search_term)

\* the filters read_items stacks on db.query(Item)
Matches25(r, category, active_only, search) ==
    /\ active_only => r.is_active = Some(TRUE)
    /\ Truthy(category) => r.category = category
    /\ Truthy(search) =>
        LET search_term == <<"%">> \o search[1] \o <<"%">> IN
        ColumnLike(r.name, search_term) \/ ColumnLike(r.description, search_term)

Query25(category, active_only, search) ==
    {r \in items25 : Matches25(r, category, active_only, search)}

\* order_by(Item.created_at.desc()): the orders the database may return the
\* rows in; rows with equal created_at come in any order
OrderByCreatedDesc(rows) ==
    {ord \in [1..Cardinality(rows) -> rows] :
        /\ \A i, j \in DOMAIN ord : i # j => ord[i] # ord[j]
        /\ \A i, j \in DOMAIN ord : i < j => ord[i].created_at >= ord[j].created_at}

\* .offset(offset).limit(limit) on an ordered result
OffsetLimit(ord, offset, limit) ==
    LET n == IF Len(ord) - offset < 0 THEN 0
             ELSE IF Len(ord) - offset < limit THEN Len(ord) - offset
             ELSE limit IN
    [i \in 1..n |-> ord[offset + i]]

\* mutant of TotalPages: the division rounds down
TotalPages_Floor(total, per_page) == total \div per_page

\* total_pages = (total + per_page - 1) // per_page
TotalPages(total, per_page) == (total + per_page - 1) \div per_page

\* mutant of Offset: pages are counted from 0
Offset_FromZero(page, per_page) == page * per_page

\* offset = (page - 1) * per_page
Offset(page, per_page) == (page - 1) * per_page

\* ItemsListResponse(...) for the row order ord the database returned
ItemsListResponse(ord, total, page, per_page) ==
    [items |-> OffsetLimit(ord, Offset(page, per_page), per_page),
     total |-> total,
     page |-> page,
     per_page |-> per_page,
     total_pages |-> TotalPages(total, per_page)]

\* the bodies read_items may return: one for every order the database may
\* return the selected rows in
ReadItemsBodies(page, per_page, category, active_only, search) ==
    LET query == Query25(category, active_only, search)
        total == Cardinality(query) IN
    {ItemsListResponse(ord, total, page, per_page) :
        ord \in OrderByCreatedDesc(query)}

read_items(page, per_page, category, active_only, search) ==
    /\ app = "main25"
    /\ \E body \in ReadItemsBodies(page, per_page, category, active_only, search) :
            resp' = Response("read_items", 200, 0, <<body>>)
    /\ UNCHANGED <<now, vars25, created_ids, deleted_ids>>
    /\ Only25

\* the row after the setattr loop and the refresh of updated_at
\* mutant of Rollback25: the changes of the session reach the table
Rollback25_Flushes(committed, pending) == pending

\* db.rollback() after a failed commit: the table keeps its committed rows,
\* the changes the session holds are dropped
Rollback25(committed, pending) == committed

\* mutant of Updated25: the clock is written to created_at as well
Updated25_Restamps(db_item, item_update) ==
    [ApplyUpdate(db_item, item_update) EXCEPT !.updated_at = now,
                                              !.created_at = now]

Updated25(db_item, item_update) ==
    [ApplyUpdate(db_item, item_update) EXCEPT !.updated_at = now]

update_item(item_id, item_update) ==
    /\ app = "main25"
    /\ IF ById25(item_id) = {}
       THEN /\ resp' = Error("update_item", 404, item_id, "Item not found")
            /\ UNCHANGED items25
       ELSE \E db_item \in ById25(item_id) :
            IF SetFields(item_update) = {}
            THEN /\ resp' = Error("update_item", 400, item_id, "No fields to update")
                 /\ UNCHANGED items25
            ELSE IF /\ "name" \in SetFields(item_update)
                    /\ NameTaken25(item_update.name[1], item_id)
            THEN /\ resp' = Error("update_item", 400, item_id, "Item already exists")
                 /\ UNCHANGED items25
            ELSE LET row == Updated25(db_item, item_update) IN
                 IF NotNull25(row)
                 THEN /\ items25' = (items25 \ {db_item}) \cup {row}
                      /\ resp' = Response("update_item", 200, item_id, <<row>>)
                 ELSE \* IntegrityError at commit: rollback
                      /\ resp' = Error("update_item", 400, item_id, "Data integrity constraint violation")
                      /\ items25' = Rollback25(items25,
                                               (items25 \ {db_item}) \cup {row})
    /\ UNCHANGED <<now, db_type, seq25, created_ids, deleted_ids>>
    /\ Only25

delete_item(item_id) ==
    /\ app = "main25"
    /\ IF ById25(item_id) = {}
       THEN /\ resp' = Error("delete_item", 404, item_id, "Item not found")
            /\ UNCHANGED items25
       ELSE \E db_item \in ById25(item_id) :
            LET row == [db_item EXCEPT !.is_active = Some(FALSE),
                                       !.updated_at = now] IN
            /\ items25' = (items25 \ {db_item}) \cup {row}
            /\ resp' = Response("delete_item", 200, item_id, <<>>)
    /\ UNCHANGED <<now, db_type, seq25, created_ids, deleted_ids>>
    /\ Only25

delete_item_permanent(item_id) ==
    /\ app = "main25"
    /\ IF ById25(item_id) = {}
       THEN /\ resp' = Error("delete_item_permanent", 404, item_id, "Item not found")
            /\ UNCHANGED <<items25, deleted_ids>>
       ELSE \E db_item \in ById25(item_id) :
            /\ items25' = items25 \ {db_item}
            /\ deleted_ids' = deleted_ids \cup {item_id}
            /\ resp' = Response("delete_item_permanent", 200, item_id, <<>>)
    /\ UNCHANGED <<now, db_type, seq25, created_ids>>
    /\ Only25

Next25 ==
    \/ Tick
    \/ \E item \in ItemCreate : NewId25 <= MaxId25 /\ create_item(item)
    \/ \E item_id \in 1..MaxId25, item_update \in ItemUpdate :
            update_item(item_id, item_update)
    \/ \E item_id \in 1..MaxId25 : delete_item(item_id)
    \/ \E item_id \in 1..MaxId25 : delete_item_permanent(item_id)

\* the bodies that leave description and price alone
ItemCreateName == {item \in ItemCreate : item.description = None /\ item.price = None}
ItemUpdateName == {u \in ItemUpdate : SetFields(u) \subseteq {"name", "is_active"}}

\* main25 with requests that name, rename, activate and delete items
NextName25 ==
    \/ \E item \in ItemCreateName : NewId25 <= MaxId25 /\ create_item(item)
    \/ \E item_id \in 1..MaxId25, item_update \in ItemUpdateName :
            update_item(item_id, item_update)
    \/ \E item_id \in 1..MaxId25 : delete_item(item_id)
    \/ \E item_id \in 1..MaxId25 : delete_item_permanent(item_id)

\* the query parameters read_items is tried on
Categories25 == {None, Some(<<"c">>)}
Searches25 == {None, Some(<<"b">>)}

NextList25 ==
    \/ Tick
    \/ \E item \in ItemCreateList : NewId25 <= MaxRowsList /\ create_item(item)
    \/ \E page \in 1..MaxPage, per_page \in 1..MaxPerPage,
          category \in Categories25, active_only \in BOOLEAN,
          search \in Searches25 :
            read_items(page, per_page, category, active_only, search)

\* main25 with the handlers that read, rename, soft-delete and delete items
NextSoft25 ==
    \/ \E item \in ItemCreateName : NewId25 <= MaxId25 /\ create_item(item)
    \/ \E item_id \in 1..MaxId25, item_update \in ItemUpdateName :
            update_item(item_id, item_update)
    \/ \E item_id \in 1..MaxId25 : delete_item(item_id)
    \/ \E item_id \in 1..MaxId25 : delete_item_permanent(item_id)
    \/ \E item_id \in 1..MaxId25 : read_item(item_id)
    \/ \E page \in 1..MaxPage, per_page \in 1..MaxPerPage,
          category \in Categories25, active_only \in BOOLEAN :
            read_items(page, per_page, category, active_only, None)

----------------------------------------------------------------------------
(* main20: table users in SQLite, email declared unique *)

UserCreate ==
    [name : {<<"a">>, <<" ", "b">>, <<" ">>},
     email : {"x@e.com", "y@e.com"}]

\* UserCreate.name_must_not_be_empty: refused when the body is parsed
UserValid(user) == Strip(user.name) # <<>>

ById20(user_id) == {r \in users20 : r.id = user_id}

\* SQLite's rowid for a new row
NewId20 ==
    IF users20 = {} THEN 1 ELSE SetMax({r.id : r \in users20}) + 1

\* the unique index on users.email: whether the table may hold these rows
UniqueEmail20(rows) ==
    \A r1, r2 \in rows : r1.email = r2.email => r1 = r2

create_user(user) ==
    /\ app = "main20"
    /\ IF ~UserValid(user)
       THEN /\ resp' = Error("create_user", 422, 0, "validation error")
            /\ UNCHANGED users20
       ELSE LET db_user == [id |-> NewId20, name |-> Strip(user.name),
                            email |-> user.email] IN
            IF UniqueEmail20(users20 \cup {db_user})
            THEN /\ users20' = users20 \cup {db_user}
                 /\ resp' = Response("create_user", 200, db_user.id, <<db_user>>)
            ELSE \* IntegrityError at commit: rollback
                 /\ resp' = Error("create_user", 400, 0, "User already exists")
                 /\ UNCHANGED users20
    /\ UNCHANGED <<created_ids, deleted_ids>>
    /\ Only20

update_user(user_id, user_update) ==
    /\ app = "main20"
    /\ IF ~UserValid(user_update)
       THEN /\ resp' = Error("update_user", 422, user_id, "validation error")
            /\ UNCHANGED users20
       ELSE IF ById20(user_id) = {}
       THEN /\ resp' = Error("update_user", 404, user_id, "User not found")
            /\ UNCHANGED users20
       ELSE \E db_user \in ById20(user_id) :
            LET row == [db_user EXCEPT !.name = Strip(user_update.name),
                                       !.email = user_update.email]
                rows == (users20 \ {db_user}) \cup {row} IN
            IF UniqueEmail20(rows)
            THEN /\ users20' = rows
                 /\ resp' = Response("update_user", 200, user_id, <<row>>)
            ELSE \* IntegrityError at commit: rollback
                 /\ resp' = Error("update_user", 400, user_id, "User already exists")
                 /\ UNCHANGED users20
    /\ UNCHANGED <<created_ids, deleted_ids>>
    /\ Only20

delete_user(user_id) ==
    /\ app = "main20"
    /\ IF ById20(user_id) = {}
       THEN /\ resp' = Error("delete_user", 404, user_id, "User not found")
            /\ UNCHANGED <<users20, deleted_ids>>
       ELSE \E db_user \in ById20(user_id) :
            /\ users20' = users20 \ {db_user}
            /\ deleted_ids' = deleted_ids \cup {user_id}
            /\ resp' = Response("delete_user", 200, user_id, <<>>)
    /\ UNCHANGED <<created_ids>>
    /\ Only20

Next20 ==
    \/ \E user \in UserCreate : NewId20 <= MaxId20 /\ create_user(user)
    \/ \E user_id \in 1..MaxId20, user_update \in UserCreate :
            update_user(user_id, user_update)
    \/ \E user_id \in 1..MaxId20 : delete_user(user_id)

----------------------------------------------------------------------------
(* main26: table products in MySQL *)

ProductCreate ==
    [name : {<<"a">>, <<" ">>},
     description : {Some("d")},
     price : {5},
     in_stock : BOOLEAN]

ProductUpdate ==
    {u \in [name : {Unset, Given(None), Given(Some(<<"b">>))},
            description : {Unset, Given(None)},
            price : {Unset, Given(Some(7))},
            in_stock : {Unset, Given(Some(FALSE))}] :
        Cardinality(SetFields(u)) <= MaxPatchFields}

\* ProductBase.name_not_empty: refused when the body is parsed
ProductValid(product) == Strip(product.name) # <<>>

ById26(product_id) == {r \in products26 : r.id = product_id}

\* Product(**product.dict()) as inserted by db.commit()
NewProduct26(id, product) ==
    [id |-> id,
     name |-> Some(Strip(product.name)),
     description |-> product.description,
     price |-> Some(product.price),
     in_stock |-> Some(product.in_stock),
     created_at |-> now,
     updated_at |-> now]

\* the columns declared nullable=False
NotNull26(row) == ~IsNone(row.name) /\ ~IsNone(row.price)

create_product(product) ==
    /\ app = "main26"
    /\ IF ~ProductValid(product)
       THEN /\ resp' = Error("create_product", 422, 0, "validation error")
            /\ UNCHANGED <<products26, seq26>>
       ELSE LET db_product == NewProduct26(seq26, product) IN
            /\ products26' = products26 \cup {db_product}
            /\ seq26' = seq26 + 1
            /\ resp' = Response("create_product", 200, db_product.id,
                                <<db_product>>)
    /\ UNCHANGED <<now, created_ids, deleted_ids>>
    /\ Only26

\* the row after the setattr loop and the refresh of updated_at
Updated26(db_product, update) ==
    [ApplyUpdate(db_product, update) EXCEPT !.updated_at = now]

update_product(product_id, update) ==
    /\ app = "main26"
    /\ IF ById26(product_id) = {}
       THEN /\ resp' = Error("update_product", 404, product_id, "Product not found")
            /\ UNCHANGED products26
       ELSE \E db_product \in ById26(product_id) :
            LET row == Updated26(db_product, update) IN
            IF NotNull26(row)
            THEN /\ products26' = (products26 \ {db_product}) \cup {row}
                 /\ resp' = Response("update_product", 200, product_id, <<row>>)
            ELSE \* IntegrityError at commit, not caught: the session is
                 \* closed without a commit
                 /\ resp' = Error("update_product", 500, product_id, "Internal Server Error")
                 /\ UNCHANGED products26
    /\ UNCHANGED <<now, seq26, created_ids, deleted_ids>>
    /\ Only26

delete_product(product_id) ==
    /\ app = "main26"
    /\ IF ById26(product_id) = {}
       THEN /\ resp' = Error("delete_product", 404, product_id, "Product not found")
            /\ UNCHANGED <<products26, deleted_ids>>
       ELSE \E db_product \in ById26(product_id) :
            /\ products26' = products26 \ {db_product}
            /\ deleted_ids' = deleted_ids \cup {product_id}
            /\ resp' = Response("delete_product", 200, product_id, <<>>)
    /\ UNCHANGED <<now, seq26, created_ids>>
    /\ Only26

Next26 ==
    \/ Tick
    \/ \E product \in ProductCreate : seq26 <= MaxId26 /\ create_product(product)
    \/ \E product_id \in 1..MaxId26, update \in ProductUpdate :
            update_product(product_id, update)
    \/ \E product_id \in 1..MaxId26 : delete_product(product_id)

----------------------------------------------------------------------------
(* Handlers run by the threads of the pool: FastAPI runs a handler declared *)
(* with def in a worker thread, so two requests may be in progress at once  *)
(* and a thread may be suspended between two statements of a handler        *)

Threads == 1..NumThreads

\* a thread with no request: pc is the statement the thread is at, op the
\* handler it runs, id, body and item the handler's locals, tmp the value read
\* for next_id += 1, orig the record an update has read, todo the writes an
\* update still has to make (each a set of fields written at once)
Idle ==
    [pc |-> "idle", op |-> "none", id |-> 0, tmp |-> 0, body |-> <<>>,
     item |-> <<>>, orig |-> <<>>, todo |-> {}]

At(t, op, pc) == workers[t].op = op /\ workers[t].pc = pc

Goto(t, pc) == workers' = [workers EXCEPT ![t].pc = pc]

\* main18 create_order, statement by statement
\* order = Order(id=next_id, ...)
create_order_build(t, order_data) ==
    /\ app = "main18"
    /\ workers[t] = Idle
    /\ next_id18 <= MaxId18
    /\ OrderValid(order_data)
    /\ workers' = [workers EXCEPT ![t] =
            [Idle EXCEPT !.pc = "built", !.op = "create_order",
                         !.id = NewId18,
                         !.item = <<NewOrder(NewId18, order_data)>>]]
    /\ UNCHANGED <<resp, vars18, created_ids, deleted_ids>>
    /\ Others18

\* orders.append(order)
create_order_append(t) ==
    /\ app = "main18"
    /\ At(t, "create_order", "built")
    /\ orders' = Append(orders, workers[t].item[1])
    /\ Goto(t, "appended")
    /\ UNCHANGED <<resp, next_id18, created_ids, deleted_ids>>
    /\ Others18

\* next_id += 1: the read of next_id
create_order_load(t) ==
    /\ app = "main18"
    /\ At(t, "create_order", "appended")
    /\ workers' = [workers EXCEPT ![t].pc = "loaded", ![t].tmp = next_id18]
    /\ UNCHANGED <<resp, vars18, created_ids, deleted_ids>>
    /\ Others18

\* next_id += 1: the write of next_id; return order
create_order_store(t) ==
    /\ app = "main18"
    /\ At(t, "create_order", "loaded")
    /\ next_id18' = workers[t].tmp + 1
    /\ Goto(t, "returned")
    /\ resp' = Response("create_order", 200, workers[t].id, workers[t].item)
    /\ UNCHANGED <<orders, created_ids, deleted_ids>>
    /\ Others18

\* main24 create_item, statement by statement
\* item_with_id = ItemResponse(id=next_id, **item.dict())
create_item24_build(t, item) ==
    /\ app = "main24"
    /\ workers[t] = Idle
    /\ next_id24 <= MaxId24
    /\ workers' = [workers EXCEPT ![t] =
            [Idle EXCEPT !.pc = "built", !.op = "create_item",
                         !.id = next_id24,
                         !.item = <<ItemResponse24(next_id24, item)>>]]
    /\ UNCHANGED <<resp, vars24, created_ids, deleted_ids>>
    /\ Others24

\* db.append(item_with_id)
create_item24_append(t) ==
    /\ app = "main24"
    /\ At(t, "create_item", "built")
    /\ items_db' = Append(items_db, workers[t].item[1])
    /\ Goto(t, "appended")
    /\ UNCHANGED <<resp, next_id24, created_ids, deleted_ids>>
    /\ Others24

\* next_id += 1: the read of next_id
create_item24_load(t) ==
    /\ app = "main24"
    /\ At(t, "create_item", "appended")
    /\ workers' = [workers EXCEPT ![t].pc = "loaded", ![t].tmp = next_id24]
    /\ UNCHANGED <<resp, vars24, created_ids, deleted_ids>>
    /\ Others24

\* next_id += 1: the write of next_id; return item_with_id
create_item24_store(t) ==
    /\ app = "main24"
    /\ At(t, "create_item", "loaded")
    /\ next_id24' = workers[t].tmp + 1
    /\ Goto(t, "returned")
    /\ resp' = Response("create_item", 200, workers[t].id, workers[t].item)
    /\ UNCHANGED <<items_db, created_ids, deleted_ids>>
    /\ Others24

\* main2 create_item, statement by statement
\* item_id = max(items.keys(), default=0) + 1
create_item2_key(t, item) ==
    /\ app = "main2"
    /\ workers[t] = Idle
    /\ NextKey2(items2) <= MaxId2
    /\ workers' = [workers EXCEPT ![t] =
            [Idle EXCEPT !.pc = "built", !.op = "create_item",
                         !.id = NextKey2(items2), !.item = <<item>>]]
    /\ UNCHANGED <<resp, vars2, created_ids, deleted_ids>>
    /\ Others2

\* items[item_id] = item; return
create_item2_put(t) ==
    /\ app = "main2"
    /\ At(t, "create_item", "built")
    /\ items2' = DictPut(items2, workers[t].id, workers[t].item[1])
    /\ Goto(t, "returned")
    /\ resp' = Response("create_item", 200, workers[t].id, workers[t].item)
    /\ UNCHANGED <<created_ids, deleted_ids>>
    /\ Others2

\* the creates of the stores that assign ids themselves, run by the threads
NextCreates ==
    \E t \in Threads :
        \/ \E order_data \in OrderCreate : create_order_build(t, order_data)
        \/ create_order_append(t)
        \/ create_order_load(t)
        \/ create_order_store(t)
        \/ \E item \in Item24 : create_item24_build(t, item)
        \/ create_item24_append(t)
        \/ create_item24_load(t)
        \/ create_item24_store(t)
        \/ \E item \in Payload2 : create_item2_key(t, item)
        \/ create_item2_put(t)

\* the record cur with the fields b taken from new
RowWrite(cur, new, b) ==
    [f \in DOMAIN cur |-> IF f \in b THEN new[f] ELSE cur[f]]

\* mutant of AssignWrites18: the fields are assigned one by one on the order
\* that is in the list
AssignWrites18_PerField(fields) == {{f} : f \in fields}

\* orders[i] = updated_order: one assignment puts the whole copy in the list
AssignWrites18(fields) == {fields}

\* main18 update_order, statement by statement
\* the loop finds the order; updated_order = order.model_copy(update=...)
update_order_copy(t, order_id, update) ==
    /\ app = "main18"
    /\ workers[t] = Idle
    /\ OrderUpdateValid(update) = TRUE
    /\ LET i == FirstIndex(orders, order_id) IN
       /\ i # 0
       /\ workers' = [workers EXCEPT ![t] =
            [Idle EXCEPT !.pc = "copied", !.op = "update_order",
                         !.id = order_id, !.tmp = i,
                         !.body = <<update>>,
                         !.orig = <<orders[i]>>,
                         !.item = <<ApplyUpdate(orders[i],
                                                OrderUpdateParsed(update))>>,
                         !.todo = AssignWrites18(DOMAIN orders[i])]]
    /\ UNCHANGED <<resp, vars18, created_ids, deleted_ids>>
    /\ Others18

\* orders[i] = updated_order; return updated_order. The index i is the one
\* the loop stopped at: on a list that has become shorter than i since, the
\* assignment raises IndexError
update_order_assign(t) ==
    /\ app = "main18"
    /\ At(t, "update_order", "copied")
    /\ IF workers[t].tmp > Len(orders)
       THEN /\ workers' = [workers EXCEPT ![t].pc = "returned"]
            /\ resp' = Error("update_order", 500, workers[t].id,
                             "Internal Server Error")
            /\ UNCHANGED orders
       ELSE \E b \in workers[t].todo :
            LET i == workers[t].tmp
                left == workers[t].todo \ {b} IN
            /\ orders' = [orders EXCEPT
                            ![i] = RowWrite(@, workers[t].item[1], b)]
            /\ IF left = {}
               THEN /\ workers' = [workers EXCEPT ![t].pc = "returned",
                                                  ![t].todo = left]
                    /\ resp' = Response("update_order", 200, workers[t].id,
                                        workers[t].item)
               ELSE /\ workers' = [workers EXCEPT ![t].todo = left]
                    /\ UNCHANGED resp
    /\ UNCHANGED <<next_id18, created_ids, deleted_ids>>
    /\ Others18

\* mutant of CommitWrites25: every column is committed on its own
CommitWrites25_PerColumn(columns) == {{f} : f \in columns}

\* db.commit(): one transaction writes the columns the session has changed
CommitWrites25(columns) == {columns}

\* main25 update_item, statement by statement, every request in its own
\* session
\* db_item = db.query(Item).filter(Item.id == item_id).first(), for a row that
\* is there and a body that sets a field
update_item_load(t, item_id, item_update) ==
    /\ app = "main25"
    /\ workers[t] = Idle
    /\ SetFields(item_update) # {}
    /\ \E db_item \in ById25(item_id) :
        workers' = [workers EXCEPT ![t] =
            [Idle EXCEPT !.pc = "loaded", !.op = "update_item",
                         !.id = item_id, !.body = <<item_update>>,
                         !.orig = <<db_item>>]]
    /\ UNCHANGED <<resp, now, vars25, created_ids, deleted_ids>>
    /\ Others25

\* the check of the name against the committed rows, then the setattr loop and
\* updated_at = datetime.utcnow() on the object of the session; the commit will
\* write the attributes that have changed and updated_at
update_item_check(t) ==
    /\ app = "main25"
    /\ At(t, "update_item", "loaded")
    /\ LET item_update == workers[t].body[1]
           old == workers[t].orig[1]
           new == Updated25(old, item_update) IN
       IF /\ "name" \in SetFields(item_update)
          /\ NameTaken25(item_update.name[1], workers[t].id)
       THEN /\ workers' = [workers EXCEPT ![t].pc = "refused"]
            /\ resp' = Error("update_item", 400, workers[t].id,
                             "Item already exists")
       ELSE /\ workers' = [workers EXCEPT
                ![t].pc = "checked",
                ![t].item = <<new>>,
                ![t].todo = CommitWrites25(
                    {f \in DOMAIN new : new[f] # old[f]} \cup {"updated_at"})]
            /\ UNCHANGED resp
    /\ UNCHANGED <<now, vars25, created_ids, deleted_ids>>
    /\ Others25

\* db.commit(); db.refresh(db_item); return db_item
update_item_commit(t) ==
    /\ app = "main25"
    /\ At(t, "update_item", "checked")
    /\ \E b \in workers[t].todo, cur \in ById25(workers[t].id) :
        LET row == RowWrite(cur, workers[t].item[1], b)
            left == workers[t].todo \ {b} IN
        /\ items25' = (items25 \ {cur}) \cup {row}
        /\ IF left = {}
           THEN /\ workers' = [workers EXCEPT ![t].pc = "returned",
                                              ![t].todo = left,
                                              ![t].item = <<row>>]
                /\ resp' = Response("update_item", 200, row.id, <<row>>)
           ELSE /\ workers' = [workers EXCEPT ![t].todo = left]
                /\ UNCHANGED resp
    /\ UNCHANGED <<now, db_type, seq25, created_ids, deleted_ids>>
    /\ Others25

\* main25 create_item, statement by statement, every request in its own
\* session
\* existing_item = db.query(Item).filter(Item.name == item.name).first()
create_item_check(t, item) ==
    /\ app = "main25"
    /\ workers[t] = Idle
    /\ IF NameExists25(item.name)
       THEN /\ workers' = [workers EXCEPT ![t] =
                [Idle EXCEPT !.pc = "refused", !.op = "create_item",
                             !.body = <<item>>]]
            /\ resp' = Error("create_item", 400, 0, "Item already exists")
       ELSE /\ workers' = [workers EXCEPT ![t] =
                [Idle EXCEPT !.pc = "checked", !.op = "create_item",
                             !.body = <<item>>]]
            /\ UNCHANGED resp
    /\ UNCHANGED <<now, vars25, created_ids, deleted_ids>>
    /\ Others25

\* db_item = Item(**item.model_dump()); db.add(db_item); db.commit();
\* db.refresh(db_item); return db_item
create_item_commit(t) ==
    /\ app = "main25"
    /\ At(t, "create_item", "checked")
    /\ NewId25 <= MaxId25
    /\ LET db_item == NewItem25(NewId25, workers[t].body[1]) IN
       /\ items25' = items25 \cup {db_item}
       /\ seq25' = IF db_type = "sqlite" THEN seq25 ELSE seq25 + 1
       /\ workers' = [workers EXCEPT ![t].pc = "returned",
                                     ![t].id = db_item.id,
                                     ![t].item = <<db_item>>]
       /\ resp' = Response("create_item", 201, db_item.id, <<db_item>>)
    /\ UNCHANGED <<now, db_type, created_ids, deleted_ids>>
    /\ Others25

\* main25 get_statistics, query by query, the request in its own session.
\* Every query reads the rows committed when it runs: the SQLite driver opens
\* no transaction for a SELECT, and PostgreSQL takes a snapshot per statement
\* total_items = db.query(Item).count()
get_statistics_total(t) ==
    /\ app = "main25"
    /\ workers[t] = Idle
    /\ workers' = [workers EXCEPT ![t] =
            [Idle EXCEPT !.pc = "total", !.op = "get_statistics",
                         !.item = <<[total_items |-> Cardinality(items25)]>>]]
    /\ UNCHANGED <<resp, now, vars25, created_ids, deleted_ids>>
    /\ Others25

\* active_items = db.query(Item).filter(Item.is_active == True).count();
\* inactive_items = total_items - active_items
get_statistics_active(t) ==
    /\ app = "main25"
    /\ At(t, "get_statistics", "total")
    /\ LET total_items == workers[t].item[1].total_items
           active_items ==
                Cardinality({r \in items25 : r.is_active = Some(TRUE)})
       IN
       workers' = [workers EXCEPT
            ![t].pc = "active",
            ![t].item = <<[total_items |-> total_items,
                           active_items |-> active_items,
                           inactive_items |-> total_items - active_items]>>]
    /\ UNCHANGED <<resp, now, vars25, created_ids, deleted_ids>>
    /\ Others25

\* categories_count = db.query(Item.category).filter(Item.category.isnot(None),
\* Item.is_active == True).distinct().count(); return {...}
get_statistics_return(t) ==
    /\ app = "main25"
    /\ At(t, "get_statistics", "active")
    /\ LET counts == workers[t].item[1]
           categories_count ==
                Cardinality({r.category :
                    r \in {x \in items25 : /\ ~IsNone(x.category)
                                           /\ x.is_active = Some(TRUE)}})
           stats == [total_items |-> counts.total_items,
                     active_items |-> counts.active_items,
                     inactive_items |-> counts.inactive_items,
                     categories_count |-> categories_count,
                     database_type |-> db_type]
       IN
       /\ workers' = [workers EXCEPT ![t].pc = "returned",
                                     ![t].item = <<stats>>]
       /\ resp' = Response("get_statistics", 200, 0, <<stats>>)
    /\ UNCHANGED <<now, vars25, created_ids, deleted_ids>>
    /\ Others25

\* main25 with statistics asked for while items are created and deleted
NextStats25 ==
    \/ \E item \in ItemCreateName : NewId25 <= MaxId25 /\ create_item(item)
    \/ \E item_id \in 1..MaxId25 : delete_item(item_id)
    \/ \E item_id \in 1..MaxId25 : delete_item_permanent(item_id)
    \/ \E t \in Threads : get_statistics_total(t)
    \/ \E t \in Threads : get_statistics_active(t)
    \/ \E t \in Threads : get_statistics_return(t)

\* the bodies the updates in progress are tried on
OrderUpdateThreads ==
    {u \in OrderUpdate : SetFields(u) \subseteq {"quantity", "price"}}
ItemUpdateThreads ==
    {u \in ItemUpdateName : u.name # Given(None) /\ u.is_active # Given(None)}

\* main18 and main25 with partial updates in progress while the store is
\* filled and listed
NextListUpdate ==
    \/ \E order_data \in OrderCreate :
            next_id18 <= MaxRowsUpdate /\ create_order(order_data)
    \/ \E status \in {None, Some("pending")}, max_price \in {None, Some(5)} :
            get_orders(status, None, max_price)
    \/ \E t \in Threads, order_id \in 1..MaxRowsUpdate,
          update \in OrderUpdateThreads :
            update_order_copy(t, order_id, update)
    \/ \E t \in Threads : update_order_assign(t)
    \/ \E item \in ItemCreateName :
            NewId25 <= MaxRowsUpdate /\ create_item(item)
    \/ \E active_only \in BOOLEAN : read_items(1, 1, None, active_only, None)
    \/ \E t \in Threads, item_id \in 1..MaxRowsUpdate,
          item_update \in ItemUpdateThreads :
            update_item_load(t, item_id, item_update)
    \/ \E t \in Threads : update_item_check(t)
    \/ \E t \in Threads : update_item_commit(t)

\* main25 with requests that create and rename items in progress at the same
\* time
NextNames25 ==
    \/ \E item \in ItemCreateName :
            NewId25 <= MaxRowsUpdate /\ create_item(item)
    \/ \E t \in Threads, item \in ItemCreateName : create_item_check(t, item)
    \/ \E t \in Threads : create_item_commit(t)
    \/ \E t \in Threads, item_id \in 1..MaxId25,
          item_update \in ItemUpdateThreads :
            update_item_load(t, item_id, item_update)
    \/ \E t \in Threads : update_item_check(t)
    \/ \E t \in Threads : update_item_commit(t)

\* main25 with the clock running, updates in progress at the same time and
\* soft deletes
NextStamps25 ==
    \/ Tick
    \/ \E item \in ItemCreateName :
            NewId25 <= MaxRowsUpdate /\ create_item(item)
    \/ \E t \in Threads, item_id \in 1..MaxRowsUpdate,
          item_update \in ItemUpdateThreads :
            update_item_load(t, item_id, item_update)
    \/ \E t \in Threads : update_item_check(t)
    \/ \E t \in Threads : update_item_commit(t)
    \/ \E item_id \in 1..MaxRowsUpdate : delete_item(item_id)

\* main18 and main25 with the handlers that update or soft-delete a record,
\* the updates in progress at the same time
NextKeep ==
    \/ NextStamps25
    \/ \E order_data \in OrderCreate :
            next_id18 <= MaxRowsUpdate /\ create_order(order_data)
    \/ \E t \in Threads, order_id \in 1..MaxRowsUpdate,
          update \in OrderUpdateThreads :
            update_order_copy(t, order_id, update)
    \/ \E t \in Threads : update_order_assign(t)

\* main18 with updates in progress at the same time, no order deleted
NextUpdates18 ==
    \/ \E order_data \in OrderCreate : create_order(order_data)
    \/ \E t \in Threads, order_id \in 1..MaxId18,
          update \in OrderUpdateThreads :
            update_order_copy(t, order_id, update)
    \/ \E t \in Threads : update_order_assign(t)

\* main18 with updates in progress while orders are created and deleted
NextRace18 ==
    \/ \E order_data \in OrderCreate : create_order(order_data)
    \/ \E order_id \in 1..MaxId18 : delete_order(order_id)
    \/ \E t \in Threads, order_id \in 1..MaxId18,
          update \in OrderUpdateThreads :
            update_order_copy(t, order_id, update)
    \/ \E t \in Threads : update_order_assign(t)

----------------------------------------------------------------------------
(* main25 and main20: the database fails under a handler.  db.commit() raises
   a SQLAlchemyError that is no IntegrityError (the database is locked, the
   connection is lost), or the commit succeeds and db.refresh() raises it    *)

FaultPoints == {"commit", "refresh"}

\* mutant of Rollback20: the rows of the failed transaction stay
Rollback20_Keeps(committed, pending) == pending

\* db.rollback() in main20, after a commit that failed
Rollback20(committed, pending) == committed

\* what the table holds once the except branch has run: a failed commit is
\* rolled back, a commit that succeeded stays
AfterFault25(at, pending) ==
    IF at = "commit" THEN Rollback25(items25, pending) ELSE pending
AfterFault20(at, pending) ==
    IF at = "commit" THEN Rollback20(users20, pending) ELSE pending

\* create_item, except SQLAlchemyError; on PostgreSQL the INSERT that was
\* flushed has drawn its id from the sequence, rolled back or not
create_item_db_error(item, at) ==
    /\ app = "main25"
    /\ ~NameExists25(item.name)
    /\ LET db_item == NewItem25(NewId25, item) IN
       items25' = AfterFault25(at, items25 \cup {db_item})
    /\ seq25' = IF db_type = "sqlite" THEN seq25 ELSE seq25 + 1
    /\ resp' = Error("create_item", 500, 0, "Failed to create item")
    /\ UNCHANGED <<now, db_type, created_ids, deleted_ids>>
    /\ Only25

\* update_item, except SQLAlchemyError
update_item_db_error(item_id, item_update, at) ==
    /\ app = "main25"
    /\ SetFields(item_update) # {}
    /\ "name" \in SetFields(item_update) =>
            ~NameTaken25(item_update.name[1], item_id)
    /\ \E db_item \in ById25(item_id) :
        LET row == Updated25(db_item, item_update) IN
        /\ NotNull25(row)
        /\ items25' = AfterFault25(at, (items25 \ {db_item}) \cup {row})
    /\ resp' = Error("update_item", 500, item_id, "Failed to update item")
    /\ UNCHANGED <<now, db_type, seq25, created_ids, deleted_ids>>
    /\ Only25

\* delete_item, except SQLAlchemyError: the commit is the last call on the
\* database
delete_item_db_error(item_id) ==
    /\ app = "main25"
    /\ \E db_item \in ById25(item_id) :
        LET row == [db_item EXCEPT !.is_active = Some(FALSE),
                                   !.updated_at = now] IN
        items25' = AfterFault25("commit", (items25 \ {db_item}) \cup {row})
    /\ resp' = Error("delete_item", 500, item_id, "Failed to delete item")
    /\ UNCHANGED <<now, db_type, seq25, created_ids, deleted_ids>>
    /\ Only25

\* delete_item_permanent, except SQLAlchemyError
delete_item_permanent_db_error(item_id) ==
    /\ app = "main25"
    /\ \E db_item \in ById25(item_id) :
        items25' = AfterFault25("commit", items25 \ {db_item})
    /\ resp' = Error("delete_item_permanent", 500, item_id,
                     "Failed to permanently delete item")
    /\ UNCHANGED <<now, db_type, seq25, created_ids, deleted_ids>>
    /\ Only25

\* create_user, except SQLAlchemyError
create_user_db_error(user, at) ==
    /\ app = "main20"
    /\ UserValid(user) = TRUE
    /\ LET db_user == [id |-> NewId20, name |-> Strip(user.name),
                       email |-> user.email] IN
       /\ UniqueEmail20(users20 \cup {db_user})
       /\ users20' = AfterFault20(at, users20 \cup {db_user})
    /\ resp' = Error("create_user", 500, 0,
                     "Database error occurred while creating user")
    /\ UNCHANGED <<created_ids, deleted_ids>>
    /\ Only20

\* update_user, except SQLAlchemyError
update_user_db_error(user_id, user_update, at) ==
    /\ app = "main20"
    /\ UserValid(user_update) = TRUE
    /\ \E db_user \in ById20(user_id) :
        LET row == [db_user EXCEPT !.name = Strip(user_update.name),
                                   !.email = user_update.email]
            rows == (users20 \ {db_user}) \cup {row} IN
        /\ UniqueEmail20(rows)
        /\ users20' = AfterFault20(at, rows)
    /\ resp' = Error("update_user", 500, user_id,
                     "Database error occurred while updating user")
    /\ UNCHANGED <<created_ids, deleted_ids>>
    /\ Only20

\* delete_user, except SQLAlchemyError
delete_user_db_error(user_id) ==
    /\ app = "main20"
    /\ \E db_user \in ById20(user_id) :
        users20' = AfterFault20("commit", users20 \ {db_user})
    /\ resp' = Error("delete_user", 500, user_id,
                     "Database error occurred while deleting user")
    /\ UNCHANGED <<created_ids, deleted_ids>>
    /\ Only20

\* main25 and main20 with a database that may fail under any write
NextFaults ==
    \/ NextName25
    \/ Next20
    \/ \E item \in ItemCreateName, at \in FaultPoints :
            NewId25 <= MaxId25 /\ create_item_db_error(item, at)
    \/ \E item_id \in 1..MaxId25, item_update \in ItemUpdateName,
          at \in FaultPoints :
            update_item_db_error(item_id, item_update, at)
    \/ \E item_id \in 1..MaxId25 : delete_item_db_error(item_id)
    \/ \E item_id \in 1..MaxId25 : delete_item_permanent_db_error(item_id)
    \/ \E user \in UserCreate, at \in FaultPoints :
            NewId20 <= MaxId20 /\ create_user_db_error(user, at)
    \/ \E user_id \in 1..MaxId20, user_update \in UserCreate,
          at \in FaultPoints :
            update_user_db_error(user_id, user_update, at)
    \/ \E user_id \in 1..MaxId20 : delete_user_db_error(user_id)

----------------------------------------------------------------------------
(* main21: login with a password, JWT bearer tokens.  The time is counted in
   minutes.  A hash is the pair of its scheme and the password it was made
   of, a token the pair of its payload and the key it was signed with       *)

SECRET_KEY == "your-secret-key-change-in-production"
ACCESS_TOKEN_EXPIRE_MINUTES == 30

Only21 ==
    UNCHANGED <<app, workers, created_ids, deleted_ids, vars18, vars24, vars2,
                vars4, now, vars25, vars20, vars26, vars21, vars22>>

\* pwd_context.hash
get_password_hash(password) == [scheme |-> "bcrypt", password |-> password]

\* pwd_context.verify
verify_password(plain_password, hashed_password) ==
    hashed_password = get_password_hash(plain_password)

\* fake_users_db with the given values of the two disabled flags; the script
\* has False for both
FakeUsersDb(alice_disabled, bob_disabled) ==
    ("alice" :> [username |-> "alice",
                 hashed_password |-> get_password_hash("wonderland"),
                 email |-> "alice@example.com",
                 full_name |-> "Alice Wonderland",
                 disabled |-> alice_disabled])
    @@ ("bob" :> [username |-> "bob",
                  hashed_password |-> get_password_hash("secret"),
                  email |-> "bob@example.com",
                  full_name |-> "Bob Builder",
                  disabled |-> bob_disabled])

fake_users_db == FakeUsersDb(FALSE, FALSE)

\* the dictionaries the dependencies are run on: the one of the script and
\* the ones that differ from it in a disabled flag
Databases21 == {FakeUsersDb(a, b) : a \in BOOLEAN, b \in BOOLEAN}

\* get_user: the user, or None
get_user(db, username) ==
    IF username \in DOMAIN db THEN Some(db[username]) ELSE None

\* mutant of authenticate_user: the password is not verified
authenticate_user_NoPassword(fake_db, username, password) ==
    get_user(fake_db, username)

\* authenticate_user: the user, or None for False
authenticate_user(fake_db, username, password) ==
    LET user == get_user(fake_db, username) IN
    IF IsNone(user) THEN None
    ELSE IF ~verify_password(password, user[1].hashed_password) THEN None
    ELSE user

\* jwt.encode
Encode(payload, key) == [payload |-> payload, key |-> key]

\* mutant of Decode: the claim exp is not looked at
Decode_NoExpiry(token, key) ==
    IF token.key # key THEN None ELSE Some(token.payload)

\* jwt.decode: the payload, or None for a JWTError (wrong signature, exp in
\* the past)
Decode(token, key) ==
    IF token.key # key THEN None
    ELSE IF ~IsNone(token.payload.exp) /\ token.payload.exp[1] < now THEN None
    ELSE Some(token.payload)

\* create_access_token
create_access_token(data, expires_delta) ==
    Encode([sub |-> data.sub, exp |-> Some(now + expires_delta)], SECRET_KEY)

\* the outcome of a dependency: a user, or the HTTPException raised
Allowed(user) == [status |-> 200, user |-> <<user>>, detail |-> ""]
Denied(status, detail) == [status |-> status, user |-> <<>>, detail |-> detail]

\* oauth2_scheme, then get_current_user; token is None when the request has
\* no bearer token
get_current_user(token) ==
    IF IsNone(token) THEN Denied(401, "Not authenticated")
    ELSE LET payload == Decode(token[1], SECRET_KEY) IN
         IF IsNone(payload) THEN Denied(401, "Could not validate credentials")
         ELSE IF IsNone(payload[1].sub)
         THEN Denied(401, "Could not validate credentials")
         ELSE LET user == get_user(users21, payload[1].sub[1]) IN
              IF IsNone(user)
              THEN Denied(401, "Could not validate credentials")
              ELSE Allowed(user[1])

\* mutant of get_current_active_user: the flag is not looked at
get_current_active_user_Any(token) == get_current_user(token)

get_current_active_user(token) ==
    LET current_user == get_current_user(token) IN
    IF current_user.status # 200 THEN current_user
    ELSE IF current_user.user[1].disabled THEN Denied(400, "Inactive user")
    ELSE current_user

\* the response of an endpoint behind a dependency
Guarded(op, outcome, body) ==
    IF outcome.status = 200 THEN Response(op, 200, 0, <<body>>)
    ELSE Error(op, outcome.status, 0, outcome.detail)

\* response_model=User
User21(user) ==
    [username |-> user.username, email |-> user.email,
     full_name |-> user.full_name, disabled |-> user.disabled]

login_for_access_token(username, password) ==
    /\ app = "main21"
    /\ LET user == authenticate_user(users21, username, password) IN
       IF IsNone(user)
       THEN resp' = Error("login_for_access_token", 401, 0,
                          "Incorrect username or password")
       ELSE resp' = Response("login_for_access_token", 200, 0,
                <<[access_token |->
                        create_access_token([sub |-> Some(user[1].username)],
                                            ACCESS_TOKEN_EXPIRE_MINUTES),
                   token_type |-> "bearer"]>>)
    /\ Only21

read_users_me(token) ==
    /\ app = "main21"
    /\ LET current_user == get_current_active_user(token) IN
       resp' = Guarded("read_users_me", current_user,
                       IF current_user.status = 200
                       THEN User21(current_user.user[1]) ELSE <<>>)
    /\ Only21

read_own_items(token) ==
    /\ app = "main21"
    /\ LET current_user == get_current_active_user(token) IN
       resp' = Guarded("read_own_items", current_user,
                       IF current_user.status = 200
                       THEN [item_id |-> "Foo",
                             username |-> current_user.user[1].username]
                       ELSE <<>>)
    /\ Only21

protected_endpoint(token) ==
    /\ app = "main21"
    /\ LET current_user == get_current_user(token) IN
       resp' = Guarded("protected_endpoint", current_user,
                       IF current_user.status = 200
                       THEN [message |-> "this is protected",
                             username |-> current_user.user[1].username]
                       ELSE <<>>)
    /\ Only21

admin_endpoint(token) ==
    /\ app = "main21"
    /\ LET current_user == get_current_active_user(token) IN
       resp' = Guarded("admin_endpoint", current_user,
                       IF current_user.status = 200
                       THEN [message |-> "admin access granted",
                             username |-> current_user.user[1].username]
                       ELSE <<>>)
    /\ Only21

\* a minute passes
Tick21 ==
    /\ app = "main21"
    /\ now < MaxTime
    /\ now' = now + 1
    /\ UNCHANGED <<app, resp, created_ids, deleted_ids, vars18, vars24, vars2,
                   vars4, vars25, vars20, vars26, vars21, vars22, workers>>

\* the form fields and the bearer tokens the requests are sent with: no token,
\* and tokens with or without sub and exp, signed with the key of the script
\* or with another one
Usernames21 == {"alice", "bob", "carol"}
Passwords21 == {"wonderland", "secret", "guess"}
Tokens21 ==
    {None} \cup
    {Some(Encode([sub |-> sub, exp |-> exp], key)) :
        sub \in {None} \cup {Some(u) : u \in Usernames21},
        exp \in {None, Some(0), Some(1),
                 Some(ACCESS_TOKEN_EXPIRE_MINUTES),
                 Some(ACCESS_TOKEN_EXPIRE_MINUTES + 1)},
        key \in {SECRET_KEY, "another-key"}}

Next21 ==
    \/ Tick21
    \/ \E username \in Usernames21, password \in Passwords21 :
            login_for_access_token(username, password)
    \/ \E token \in Tokens21 : read_users_me(token)
    \/ \E token \in Tokens21 : read_own_items(token)
    \/ \E token \in Tokens21 : protected_endpoint(token)
    \/ \E token \in Tokens21 : admin_endpoint(token)

----------------------------------------------------------------------------
(* main22: a websocket that answers every message, and emails sent by
   background tasks                                                         *)

\* the messages of one connection
MaxMessages22 == 3

Only22 ==
    UNCHANGED <<app, workers, created_ids, deleted_ids, vars18, vars24, vars2,
                vars4, now, vars25, vars20, vars26, vars21>>

\* no client has connected: pc is the await the coroutine websocket_endpoint
\* is at, client the client's end of the connection, inbox the messages the
\* client has sent and the coroutine has not read, data its local variable,
\* read the messages it has read and sent the replies it has sent, in order
NoSocket ==
    [pc |-> "none", client |-> "none", inbox |-> <<>>, data |-> None,
     read |-> <<>>, sent |-> <<>>]

\* a client opens /ws: the coroutine websocket_endpoint starts
client_connect ==
    /\ app = "main22"
    /\ ws22.pc = "none"
    /\ ws22' = [ws22 EXCEPT !.pc = "accept", !.client = "connecting"]
    /\ UNCHANGED <<resp, mail22>>
    /\ Only22

\* await websocket.accept()
websocket_accept ==
    /\ app = "main22"
    /\ ws22.pc = "accept"
    /\ ws22' = [ws22 EXCEPT !.pc = "receive", !.client = "open"]
    /\ UNCHANGED <<resp, mail22>>
    /\ Only22

\* the client sends a text message on the open connection: at most
\* MaxMessages22 over the connection's life
client_send_text(data) ==
    /\ app = "main22"
    /\ ws22.client = "open"
    /\ Len(ws22.read) + Len(ws22.inbox) < MaxMessages22
    /\ ws22' = [ws22 EXCEPT !.inbox = Append(@, data)]
    /\ UNCHANGED <<resp, mail22>>
    /\ Only22

\* the client closes the connection
client_close ==
    /\ app = "main22"
    /\ ws22.client = "open"
    /\ ws22' = [ws22 EXCEPT !.client = "closed"]
    /\ UNCHANGED <<resp, mail22>>
    /\ Only22

\* data = await websocket.receive_text(): the next message of the connection;
\* once the client has closed and nothing is left, WebSocketDisconnect is
\* raised and ends the coroutine
websocket_receive_text ==
    /\ app = "main22"
    /\ ws22.pc = "receive"
    /\ IF ws22.inbox # <<>>
       THEN ws22' = [ws22 EXCEPT !.pc = "send",
                                 !.data = Some(Head(ws22.inbox)),
                                 !.read = Append(@, Head(ws22.inbox)),
                                 !.inbox = Tail(@)]
       ELSE /\ ws22.client = "closed"
            /\ ws22' = [ws22 EXCEPT !.pc = "done"]
    /\ UNCHANGED <<resp, mail22>>
    /\ Only22

\* f"Message received: {data}"
Reply22_Echo(data) == data

Reply22(data) == "Message received: " \o data

\* await websocket.send_text(f"Message received: {data}"): on a connection the
\* client has closed the server either drops the message or raises, which
\* ends the coroutine
websocket_send_text ==
    /\ app = "main22"
    /\ ws22.pc = "send"
    /\ \/ ws22' = [ws22 EXCEPT !.pc = "receive",
                               !.sent = Append(@, Reply22(ws22.data[1]))]
       \/ /\ ws22.client = "closed"
          /\ ws22' = [ws22 EXCEPT !.pc = "done"]
    /\ UNCHANGED <<resp, mail22>>
    /\ Only22

\* the text messages a client sends
Texts22 == {"a", "b"}

NextSocket22 ==
    \/ client_connect
    \/ websocket_accept
    \/ \E data \in Texts22 : client_send_text(data)
    \/ client_close
    \/ websocket_receive_text
    \/ websocket_send_text

\* the event loop resumes a coroutine whose await can complete
FairSocket22 ==
    /\ WF_vars(websocket_accept)
    /\ WF_vars(websocket_receive_text)
    /\ WF_vars(websocket_send_text)

\* the requests to /send-email/ of one run
MaxRequests22 == 3

\* no request yet: requests are the requests to /send-email/, in order, each
\* with its query parameters, its BackgroundTasks and the step it is at; sent
\* are the emails sent, in order, each with the request whose task sent it
NoMail == [requests |-> <<>>, sent |-> <<>>]

\* BackgroundTasks.add_task(func, *args)
add_task_Twice(tasks, func, email, message) ==
    tasks \o <<[func |-> func, args |-> <<email, message>>],
               [func |-> func, args |-> <<email, message>>]>>

add_task(tasks, func, email, message) ==
    Append(tasks, [func |-> func, args |-> <<email, message>>])

\* what send_email2 prints
send_email2(email, message) ==
    "Sending email to " \o email \o ": " \o message

\* POST /send-email/: the handler adds the task to the request's
\* BackgroundTasks, which starts empty, and returns
send_email_endpoint(email, message) ==
    /\ app = "main22"
    /\ Len(mail22.requests) < MaxRequests22
    /\ LET background_tasks == add_task(<<>>, "send_email2", email, message)
       IN
       /\ mail22' = [mail22 EXCEPT !.requests =
                        Append(@, [email |-> email, message |-> message,
                                   tasks |-> background_tasks,
                                   pc |-> "respond"])]
       /\ resp' = Response("send_email_endpoint", 200,
                           Len(mail22.requests) + 1,
                           <<[message |->
                                "Email will be sent in the background"]>>)
    /\ UNCHANGED ws22
    /\ Only22

\* the response of request n goes to the client; its background tasks are
\* attached to it and start after it
send_response22(n) ==
    /\ app = "main22"
    /\ n \in DOMAIN mail22.requests
    /\ mail22.requests[n].pc = "respond"
    /\ mail22' = [mail22 EXCEPT !.requests[n].pc =
                    IF mail22.requests[n].tasks = <<>> THEN "done"
                    ELSE "background"]
    /\ UNCHANGED <<resp, ws22>>
    /\ Only22

\* the next background task of request n runs: func(*args)
run_background22(n) ==
    /\ app = "main22"
    /\ n \in DOMAIN mail22.requests
    /\ mail22.requests[n].pc = "background"
    /\ LET task == Head(mail22.requests[n].tasks)
           rest == Tail(mail22.requests[n].tasks)
       IN
       mail22' = [mail22 EXCEPT
                    !.sent = Append(@, [request |-> n,
                                        out |-> send_email2(task.args[1],
                                                            task.args[2])]),
                    !.requests[n].tasks = rest,
                    !.requests[n].pc =
                        IF rest = <<>> THEN "done" ELSE "background"]
    /\ UNCHANGED <<resp, ws22>>
    /\ Only22

\* the query parameters of the requests
Emails22 == {"a@x.io", "b@x.io"}
Messages22 == {"hi", "bye"}

NextMail22 ==
    \/ \E email \in Emails22, message \in Messages22 :
            send_email_endpoint(email, message)
    \/ \E n \in 1..MaxRequests22 : send_response22(n)
    \/ \E n \in 1..MaxRequests22 : run_background22(n)

\* the server sends every response it has, and runs the background tasks of
\* every response it has sent
FairMail22 ==
    \A n \in 1..MaxRequests22 :
        /\ WF_vars(send_response22(n))
        /\ WF_vars(run_background22(n))

Next22 == NextSocket22 \/ NextMail22

----------------------------------------------------------------------------
(* Specifications *)

Apps ==
    {"main18", "main24", "main2", "main4", "main25", "main20", "main26",
     "main21", "main22"}

\* every script starts with its module-level state; a script that is not
\* served keeps it
InitStores ==
    /\ resp = NoResponse
    /\ created_ids = <<>>
    /\ deleted_ids = {}
    /\ orders = <<>>
    /\ next_id18 = 1
    /\ items_db = <<>>
    /\ next_id24 = 1
    /\ items2 = (1 :> "ammu") @@ (2 :> "ammulu")
    /\ items4 = <<>>
    /\ now = 0
    /\ items25 = {}
    /\ seq25 = 1
    /\ users20 = {}
    /\ products26 = {}
    /\ seq26 = 1
    /\ ws22 = NoSocket
    /\ mail22 = NoMail
    /\ workers = [t \in Threads |-> Idle]

\* the run serves one of the scripts S
InitApps(S) ==
    /\ app \in S
    /\ db_type \in (IF app = "main25" THEN DbTypes ELSE {"sqlite"})
    /\ users21 \in (IF app = "main21" THEN Databases21 ELSE {fake_users_db})
    /\ InitStores

\* all scripts, handlers run one at a time
Init == InitApps(Apps)

Next ==
    \/ Next18 \/ Next24 \/ Next2 \/ Next4 \/ Next25 \/ Next20 \/ Next26
    \/ Next21 \/ Next22

Spec == Init /\ [][Next]_vars

\* the stores whose ids come from a counter
InitIds == InitApps({"main18", "main24"})

SpecIds == InitIds /\ [][Next18 \/ Next24]_vars

Init2 == InitApps({"main2"})

Spec2 == Init2 /\ [][Next2]_vars

Init25 == InitApps({"main25"})

Spec25 == Init25 /\ [][Next25]_vars

\* the stores with a declared natural key
InitCreate == InitApps({"main25", "main20"})

SpecCreate == InitCreate /\ [][Next25 \/ Next20]_vars

\* the stores with a partial update
InitUpdate == InitApps({"main18", "main25", "main26"})

\* the three scripts on stores of at most MaxRowsUpdate records
NextUpdate ==
    \/ Tick
    \/ \E order_data \in OrderCreate :
            next_id18 <= MaxRowsUpdate /\ create_order(order_data)
    \/ \E order_id \in 1..MaxRowsUpdate, update \in OrderUpdate :
            update_order(order_id, update)
    \/ \E order_id \in 1..MaxRowsUpdate : delete_order(order_id)
    \/ \E item \in ItemCreate : NewId25 <= MaxRowsUpdate /\ create_item(item)
    \/ \E item_id \in 1..MaxRowsUpdate, item_update \in ItemUpdate :
            update_item(item_id, item_update)
    \/ \E item_id \in 1..MaxRowsUpdate : delete_item(item_id)
    \/ \E item_id \in 1..MaxRowsUpdate : delete_item_permanent(item_id)
    \/ \E product \in ProductCreate :
            seq26 <= MaxRowsUpdate /\ create_product(product)
    \/ \E product_id \in 1..MaxRowsUpdate, update \in ProductUpdate :
            update_product(product_id, update)
    \/ \E product_id \in 1..MaxRowsUpdate : delete_product(product_id)

SpecUpdate == InitUpdate /\ [][NextUpdate]_vars

SpecName25 == Init25 /\ [][NextName25]_vars

SpecSoft25 == Init25 /\ [][NextSoft25]_vars

\* the stores with a hard delete, with the handlers that create, replace or
\* update, get and delete a record
InitGone == InitApps({"main18", "main24", "main25"})

NextGone ==
    \/ \E order_data \in OrderCreate : create_order(order_data)
    \/ \E order_id \in 1..MaxId18, update \in OrderUpdate :
            Cardinality(SetFields(update)) <= 1 /\ update_order(order_id, update)
    \/ \E order_id \in 1..MaxId18 : delete_order(order_id)
    \/ \E order_id \in 1..MaxId18 : get_order(order_id)
    \/ \E item \in Item24 : create_item24(item)
    \/ \E item_id \in 1..MaxId24, item \in Item24 : update_item24(item_id, item)
    \/ \E item_id \in 1..MaxId24 : delete_item24(item_id)
    \/ \E item_id \in 1..MaxId24 : read_item24(item_id)
    \/ \E item \in ItemCreateName : NewId25 <= MaxId25 /\ create_item(item)
    \/ \E item_id \in 1..MaxId25, item_update \in ItemUpdateName :
            update_item(item_id, item_update)
    \/ \E item_id \in 1..MaxId25 : delete_item(item_id)
    \/ \E item_id \in 1..MaxId25 : delete_item_permanent(item_id)
    \/ \E item_id \in 1..MaxId25 : read_item(item_id)

SpecGone == InitGone /\ [][NextGone]_vars

\* the stores with a full replace
InitReplace == InitApps({"main2", "main4", "main24"})

SpecReplace == InitReplace /\ [][Next2 \/ Next4 \/ Next24]_vars

\* main24 on a list of at most MaxRows24 items
Init24 == InitApps({"main24"})

NextReplace24 ==
    \/ \E item \in Item24 : next_id24 <= MaxRows24 /\ create_item24(item)
    \/ \E item_id \in 1..MaxRows24, body \in Item24Body :
            update_item24(item_id, ParseItem24(body))
    \/ \E item_id \in 1..MaxRows24 : delete_item24(item_id)
    \/ \E item_id \in 1..MaxRows24 : read_item24(item_id)

SpecReplace24 == Init24 /\ [][NextReplace24]_vars

SpecGet24 == Init24 /\ [][NextGet24]_vars

\* main22
Init22 == InitApps({"main22"})

\* the websocket of main22, its coroutine resumed whenever it can go on
SpecSocket22 == Init22 /\ [][NextSocket22]_vars /\ FairSocket22

\* the emails of main22, every response sent and every task run in the end
SpecMail22 == Init22 /\ [][NextMail22]_vars /\ FairMail22

\* the stores that assign ids themselves, with creates in progress at once
InitCreates == InitApps({"main18", "main24", "main2"})

SpecCreates == InitCreates /\ [][NextCreates]_vars

\* the stores with a list and a partial update, with updates in progress
InitListUpdate == InitApps({"main18", "main25"})

SpecListUpdate == InitListUpdate /\ [][NextListUpdate]_vars

\* main25 with creates and updates in progress at the same time
SpecNames25 == Init25 /\ [][NextNames25]_vars

\* main25 with the clock, concurrent updates and soft deletes
SpecStamps25 == Init25 /\ [][NextStamps25]_vars

\* the stores with a partial update or a soft delete, no hard delete
SpecKeep == InitListUpdate /\ [][NextKeep]_vars

\* the two scripts on a database, with failures of the database
SpecFaults == InitCreate /\ [][NextFaults]_vars

\* main18 with its list handler
Init18 == InitApps({"main18"})

SpecFilter18 == Init18 /\ [][NextFilter18]_vars

\* main18 with updates in progress at the same time
SpecUpdates18 == Init18 /\ [][NextUpdates18]_vars

\* main18 with requests in progress at the same time
SpecRace18 == Init18 /\ [][NextRace18]_vars

\* main25 with its statistics
SpecStats25 == Init25 /\ [][NextStats25]_vars

\* main21
Init21 == InitApps({"main21"})

Spec21 == Init21 /\ [][Next21]_vars

\* main25 with the listing handler, on the default database
InitList25 ==
    /\ app = "main25"
    /\ db_type = "sqlite"
    /\ users21 = fake_users_db
    /\ InitStores

SpecList25 == InitList25 /\ [][NextList25]_vars

----------------------------------------------------------------------------
(* Claims *)

\* C1: in the counter-based stores (main18 create_order, main24 create_item)
\* the ids returned by successive creates are strictly increasing, so no id is
\* returned by two creates, whatever updates and deletes happen in between;
\* the id a create returns is the last one of that history.
C1_CreatedIdsIncrease ==
    /\ \A i, j \in DOMAIN created_ids :
            i < j => created_ids[i] < created_ids[j]
    /\ (resp.op \in {"create_order", "create_item"} /\ resp.status = 200) =>
            /\ created_ids # <<>>
            /\ resp.id = created_ids[Len(created_ids)]

\* a create has just returned an id after an earlier record was hard-deleted
C1_Witness ==
    /\ resp.op \in {"create_order", "create_item"} /\ resp.status = 200
    /\ Len(created_ids) >= 2
    /\ \E k \in deleted_ids : k < resp.id

\* C2: in main2 no create_item ever assigns the id of a record that
\* delete_item has hard-deleted.
C2_DeletedIdNeverReissued ==
    (app = "main2" /\ resp.op = "create_item" /\ resp.status = 200) =>
        resp.id \notin deleted_ids

\* C3: in main25 no two distinct active items have the same name.
C3_ActiveNamesUnique ==
    \A a, b \in items25 :
        (a.is_active = Some(TRUE) /\ b.is_active = Some(TRUE) /\ a.name = b.name)
            => a.id = b.id

\* two active items are stored and update_item has just refused a name that
\* another item holds
C3_Witness ==
    /\ resp.op = "update_item" /\ resp.detail = "Item already exists"
    /\ \E a, b \in items25 :
        a.id # b.id /\ a.is_active = Some(TRUE) /\ b.is_active = Some(TRUE)

\* C4: a create whose natural key (item name in main25, user email in main20)
\* is held by an active record of the store answers 400 with the conflict
\* detail, creates no record and leaves the store as it was.
C4_CreateConflict ==
    [][ /\ (app = "main25" /\ resp'.op = "create_item") =>
            \A item \in ItemCreate :
                ( /\ create_item(item)
                  /\ \E r \in items25 :
                        r.is_active = Some(TRUE) /\ r.name = Some(item.name) )
                => /\ resp'.status = 400
                   /\ resp'.detail = "Item already exists"
                   /\ items25' = items25
                   /\ seq25' = seq25
        /\ (app = "main20" /\ resp'.op = "create_user") =>
            \A user \in UserCreate :
                ( /\ create_user(user)
                  /\ UserValid(user)
                  /\ \E r \in users20 : r.email = user.email )
                => /\ resp'.status = 400
                   /\ resp'.detail = "User already exists"
                   /\ users20' = users20
      ]_vars

\* create_item has just refused a name that an active item holds
C4_Witness ==
    /\ resp.op = "create_item" /\ resp.detail = "Item already exists"
    /\ \E r \in items25 : r.is_active = Some(TRUE)

\* the fields of the stored record and of the returned record that the body
\* leaves out are those of the record before
OmittedKept(before, after, body, returned) ==
    \A f \in DOMAIN body \ SetFields(body) :
        after[f] = before[f] /\ returned[f] = before[f]

\* C5: after a successful partial update (update_order in main18, update_item
\* in main25, update_product in main26) every field the body omits has, in the
\* stored and in the returned record, the value it had before.
C5_OmittedFieldsKept ==
    [][ /\ (app = "main18" /\ resp'.op = "update_order" /\ resp'.status = 200) =>
            \A update \in OrderUpdate :
                update_order(resp'.id, update) =>
                    LET i == FirstIndex(orders, resp'.id) IN
                    /\ Len(orders') = Len(orders)
                    /\ OmittedKept(orders[i], orders'[i], update, resp'.body[1])
        /\ (app = "main25" /\ resp'.op = "update_item" /\ resp'.status = 200) =>
            \A item_update \in ItemUpdate :
                update_item(resp'.id, item_update) =>
                    \A before \in ById25(resp'.id) :
                        \E after \in items25' :
                            /\ after.id = before.id
                            /\ OmittedKept(before, after, item_update,
                                           resp'.body[1])
        /\ (app = "main26" /\ resp'.op = "update_product" /\ resp'.status = 200) =>
            \A update \in ProductUpdate :
                update_product(resp'.id, update) =>
                    \A before \in ById26(resp'.id) :
                        \E after \in products26' :
                            /\ after.id = before.id
                            /\ OmittedKept(before, after, update, resp'.body[1])
      ]_vars

\* update_item has just succeeded on an item whose optional fields are all set
\* and which was updated after its creation
C5_Witness ==
    /\ app = "main25" /\ resp.op = "update_item" /\ resp.status = 200
    /\ \E r \in items25 :
        /\ r.id = resp.id
        /\ ~IsNone(r.description) /\ ~IsNone(r.price) /\ ~IsNone(r.category)
        /\ r.updated_at > r.created_at

\* the body of a partial update that sets no field
EmptyBody(Schema) == CHOOSE u \in Schema : SetFields(u) = {}

\* C6: a partial update of an existing record with an empty body is refused
\* with a validation error and leaves the record, updated_at included, as it
\* was (update_order in main18, update_item in main25, update_product in
\* main26).
C6_EmptyPatchRejected ==
    [][ /\ (app = "main18" /\ resp'.op = "update_order") =>
            ( ( /\ update_order(resp'.id, EmptyBody(OrderUpdate))
                /\ FirstIndex(orders, resp'.id) # 0 )
              => resp'.status \in {400, 422} /\ orders' = orders )
        /\ (app = "main25" /\ resp'.op = "update_item") =>
            ( ( /\ update_item(resp'.id, EmptyBody(ItemUpdate))
                /\ ById25(resp'.id) # {} )
              => resp'.status \in {400, 422} /\ items25' = items25 )
        /\ (app = "main26" /\ resp'.op = "update_product") =>
            ( ( /\ update_product(resp'.id, EmptyBody(ProductUpdate))
                /\ ById26(resp'.id) # {} )
              => resp'.status \in {400, 422} /\ products26' = products26 )
      ]_vars

\* C7: update_item with a body whose name is held by another item answers 400
\* with the conflict detail and leaves the table as it was; a body whose name
\* is the one the updated item already has is never refused as a conflict, and
\* a body that sets nothing but that name is accepted and keeps the name.
C7_UpdateNameConflict ==
    [][ (app = "main25" /\ resp'.op = "update_item" /\ ById25(resp'.id) # {}) =>
            \A item_update \in ItemUpdate :
                /\ ( /\ "name" \in SetFields(item_update)
                     /\ \E r \in items25 :
                            r.id # resp'.id /\ r.name = item_update.name[1]
                     /\ update_item(resp'.id, item_update) )
                   => /\ resp'.status = 400
                      /\ resp'.detail = "Item already exists"
                      /\ items25' = items25
                /\ ( /\ "name" \in SetFields(item_update)
                     /\ \E r \in ById25(resp'.id) :
                            r.name = item_update.name[1]
                     /\ update_item(resp'.id, item_update) )
                   => /\ resp'.detail # "Item already exists"
                      /\ SetFields(item_update) = {"name"} =>
                            /\ resp'.status = 200
                            /\ \E r \in items25' :
                                r.id = resp'.id /\ r.name = item_update.name[1]
      ]_vars

\* update_item has just refused the name of another item
C7_Witness ==
    /\ app = "main25"
    /\ resp.op = "update_item" /\ resp.detail = "Item already exists"
    /\ \E a, b \in items25 : a.id = resp.id /\ b.id # a.id

\* the filters of read_items
Filters25 == Categories25 \X BOOLEAN \X Searches25

\* the records of pages 1..n, in the order of the pages
RECURSIVE ConcatPages(_, _)
ConcatPages(pages, n) ==
    IF n = 0 THEN <<>> ELSE ConcatPages(pages, n - 1) \o pages[n].items

\* C8: on a fixed table, for every filter and per_page, the items of the pages
\* 1..total_pages that read_items returns, one after the other, hold every row
\* that matches the filter exactly once.
C8_PagesEnumerateOnce ==
    app = "main25" =>
        \A f \in Filters25, per_page \in 1..MaxPerPage :
            LET query == Query25(f[1], f[2], f[3])
                total_pages == TotalPages(Cardinality(query), per_page) IN
            \A pages \in [1..total_pages ->
                            UNION {ReadItemsBodies(page, per_page, f[1], f[2], f[3]) :
                                        page \in 1..total_pages}] :
                (\A page \in 1..total_pages :
                    /\ pages[page].page = page
                    /\ pages[page].total_pages = total_pages)
                => LET all == ConcatPages(pages, total_pages) IN
                   /\ {all[i] : i \in DOMAIN all} = query
                   /\ Len(all) = Cardinality(query)

\* the least number of pages of per_page rows that hold total rows
Ceil(total, per_page) ==
    CHOOSE n \in 0..total : n * per_page >= total /\ (n - 1) * per_page < total

\* the rows of ord at the positions lo+1 .. hi
Slice(ord, lo, hi) ==
    LET last == IF hi < Len(ord) THEN hi ELSE Len(ord) IN
    IF lo >= last THEN <<>> ELSE SubSeq(ord, lo + 1, last)

\* C9: read_items returns as total the number of rows that match the filter,
\* as items the rows (page-1)*per_page+1 .. page*per_page of the matching rows
\* with the most recently created first, and as total_pages
\* ceil(total / per_page).
C9_TotalSliceAndPages ==
    [][ (app = "main25" /\ resp'.op = "read_items") =>
            LET body == resp'.body[1] IN
            \A f \in Filters25 :
                read_items(body.page, body.per_page, f[1], f[2], f[3]) =>
                    LET query == Query25(f[1], f[2], f[3]) IN
                    /\ resp'.status = 200
                    /\ body.total = Cardinality(query)
                    /\ body.total_pages = Ceil(body.total, body.per_page)
                    /\ \E ord \in OrderByCreatedDesc(query) :
                        body.items = Slice(ord, (body.page - 1) * body.per_page,
                                           body.page * body.per_page)
      ]_vars

\* read_items has just returned the second and last page, of one row
C9_Witness ==
    /\ resp.op = "read_items"
    /\ resp.body[1].page = 2
    /\ resp.body[1].total_pages = 2
    /\ Len(resp.body[1].items) = 1

\* C10: read_items asked for a page after the last one answers 200 with no
\* items and with the total and total_pages it returns for the first page.
C10_PageBeyondLast ==
    [][ (app = "main25" /\ resp'.op = "read_items") =>
            LET body == resp'.body[1] IN
            \A f \in Filters25 :
                ( /\ read_items(body.page, body.per_page, f[1], f[2], f[3])
                  /\ body.page > body.total_pages )
                => /\ resp'.status = 200
                   /\ body.items = <<>>
                   /\ \A first \in ReadItemsBodies(1, body.per_page,
                                                   f[1], f[2], f[3]) :
                        /\ body.total = first.total
                        /\ body.total_pages = first.total_pages
      ]_vars

\* read_items has just been asked for a page after the last page of a result
\* that is not empty
C10_Witness ==
    /\ resp.op = "read_items"
    /\ resp.body[1].total > 0
    /\ resp.body[1].page > resp.body[1].total_pages
    /\ resp.body[1].items = <<>>

\* C11: in main25 a successful delete_item leaves the item in the table with
\* is_active false; as long as an item is inactive, read_item of its id
\* answers 200 with is_active false, read_items with active_only true does not
\* return it and read_items with active_only false and no other filter returns
\* it on a page that holds the whole table; an inactive item stays so in
\* every step that is not an update_item or a delete_item_permanent of its id.
C11_SoftDeletedVisible ==
    [][ app = "main25" =>
        /\ (resp'.op = "delete_item" /\ resp'.status = 200) =>
                \E r \in items25' : r.id = resp'.id /\ r.is_active = Some(FALSE)
        /\ \A r \in items25 :
            ( /\ r.is_active = Some(FALSE)
              /\ ~(resp'.op \in {"update_item", "delete_item_permanent"}
                        /\ resp'.id = r.id) )
            => \E r2 \in items25' : r2.id = r.id /\ r2.is_active = Some(FALSE)
        /\ \A r \in items25 :
            (r.is_active = Some(FALSE) /\ read_item(r.id))
            => /\ resp'.status = 200
               /\ resp'.body[1].id = r.id
               /\ resp'.body[1].is_active = Some(FALSE)
        /\ resp'.op = "read_items" =>
            LET body == resp'.body[1]
                returned == {body.items[i] : i \in DOMAIN body.items} IN
            \A f \in Filters25 :
                read_items(body.page, body.per_page, f[1], f[2], f[3]) =>
                    \A r \in items25 :
                        r.is_active = Some(FALSE) =>
                            /\ f[2] => r \notin returned
                            /\ ( /\ ~f[2] /\ f[1] = None /\ f[3] = None
                                 /\ body.page = 1
                                 /\ body.per_page >= Cardinality(items25) )
                                => r \in returned
      ]_vars

\* read_items has just returned an inactive item next to an active one
C11_Witness ==
    /\ app = "main25" /\ resp.op = "read_items"
    /\ \E i, j \in DOMAIN resp.body[1].items :
        /\ resp.body[1].items[i].is_active = Some(FALSE)
        /\ resp.body[1].items[j].is_active = Some(TRUE)

\* the handlers that get or delete one record by its id
GetAndDeleteOps ==
    {"get_order", "delete_order", "read_item", "delete_item",
     "delete_item_permanent"}

\* C12: once a record with id k has been hard-deleted (delete_order in main18,
\* delete_item in main24, delete_item_permanent in main25), every later get
\* and every later delete of k answers 404.
C12_DeletedStaysGone ==
    [][ (resp'.op \in GetAndDeleteOps /\ resp'.id \in deleted_ids)
            => resp'.status = 404 ]_vars

\* the ids of the records of the store of the script that is served
StoreIds ==
    IF app = "main2" THEN DOMAIN items2
    ELSE IF app = "main4" THEN DOMAIN items4
    ELSE {items_db[i].id : i \in DOMAIN items_db}

\* C13: update_item of main2, main4 and main24 addressed to an id that is not
\* in the store answers 404 and leaves the set of ids of the store as it was.
C13_ReplaceMissingIsNotFound ==
    [][ ( /\ app \in {"main2", "main4", "main24"}
          /\ resp'.op = "update_item"
          /\ resp'.id \notin StoreIds )
        => (resp'.status = 404 /\ StoreIds' = StoreIds) ]_vars

\* C14: a successful update_item of main24 keeps the id and the position of
\* the item, gives every other field the value of the body, a field the body
\* leaves out its default and not its old value, returns the stored item and
\* changes no other item of the list.
C14_FullReplace ==
    [][ (app = "main24" /\ resp'.op = "update_item" /\ resp'.status = 200) =>
            \A body \in Item24Body :
                update_item24(resp'.id, ParseItem24(body)) =>
                    LET i == FirstIndex(items_db, resp'.id) IN
                    /\ Len(items_db') = Len(items_db)
                    /\ \A j \in DOMAIN items_db :
                            j # i => items_db'[j] = items_db[j]
                    /\ items_db'[i].id = items_db[i].id
                    /\ items_db'[i].name = body.name
                    /\ items_db'[i].price = body.price
                    /\ items_db'[i].description =
                            (IF body.description = Unset THEN None
                             ELSE body.description[1])
                    /\ items_db'[i].in_stock =
                            (IF body.in_stock = Unset THEN TRUE
                             ELSE body.in_stock[1])
                    /\ resp'.body[1] = items_db'[i]
      ]_vars

\* update_item has just replaced the second item of a list of two, and the
\* item has the default of a field that differs in the other item
C14_Witness ==
    /\ app = "main24" /\ resp.op = "update_item" /\ resp.status = 200
    /\ Len(items_db) = 2
    /\ items_db[2].id = resp.id
    /\ items_db[2].in_stock /\ ~items_db[1].in_stock
    /\ items_db[2].description = None /\ items_db[1].description # None

\* C15: a create_item, update_item, delete_item or delete_item_permanent of
\* main25 that answers 404 or 400 leaves the committed table as it was.
C15_ErrorLeavesTable ==
    [][ ( /\ app = "main25"
          /\ resp'.op \in {"create_item", "update_item", "delete_item",
                           "delete_item_permanent"}
          /\ resp'.status \in {400, 404} )
        => items25' = items25 ]_vars

\* update_item has just been refused by the database at commit, after the
\* session had changed the item
C15_Witness ==
    /\ app = "main25" /\ resp.op = "update_item"
    /\ resp.detail = "Data integrity constraint violation"
    /\ \E r \in items25 : r.id = resp.id

\* C16: creates that run at the same time (create_order in main18,
\* create_item in main24 and main2) never return the same id twice and never
\* leave two records with one id in the store.
C16_ConcurrentCreatesDistinctIds ==
    /\ \A t1, t2 \in Threads :
        ( /\ t1 # t2
          /\ workers[t1].pc = "returned" /\ workers[t2].pc = "returned" )
        => workers[t1].id # workers[t2].id
    /\ \A i, j \in DOMAIN orders : orders[i].id = orders[j].id => i = j
    /\ \A i, j \in DOMAIN items_db : items_db[i].id = items_db[j].id => i = j

\* the record r is a whole version: no update of its id is or was in
\* progress, or it is the record an update has read, or the record an update
\* has left when it returned
WholeVersion(r) ==
    \/ \A t \in Threads :
            ~(workers[t].op \in {"update_order", "update_item"}
                /\ workers[t].id = r.id)
    \/ \E t \in Threads :
        /\ workers[t].op \in {"update_order", "update_item"}
        /\ workers[t].id = r.id
        /\ \/ r = workers[t].orig[1]
           \/ workers[t].pc = "returned" /\ r = workers[t].item[1]

\* C17: a list that runs while partial updates are in progress (get_orders
\* with update_order in main18, read_items with update_item in main25)
\* returns every record either as an update has read it or as a whole update
\* has left it, never with only some fields of a patch applied.
C17_ListSeesWholeRecords ==
    [][ (resp'.op \in {"get_orders", "read_items"}) =>
            LET listed == resp'.body[1].items IN
            \A i \in DOMAIN listed : WholeVersion(listed[i])
      ]_vars

\* a list has just returned a record while an update of two fields of that
\* record was in progress
C17_Witness ==
    /\ resp.op \in {"get_orders", "read_items"}
    /\ \E t \in Threads :
        /\ workers[t].pc \in {"copied", "checked"}
        /\ workers[t].item # <<>>
        /\ Cardinality({f \in DOMAIN workers[t].item[1] :
                workers[t].item[1][f] # workers[t].orig[1][f]}) >= 2
        /\ LET listed == resp.body[1].items IN
           \E i \in DOMAIN listed : listed[i].id = workers[t].id

\* C18: in main25, whatever the interleaving of the existence checks and the
\* commits of concurrent create_item and update_item requests, the committed
\* table never holds two items with the same name.
C18_NamesStayUnique ==
    app = "main25" =>
        \A r1 \in items25, r2 \in items25 :
            r1.name = r2.name => r1.id = r2.id

\* C19: in main25 every item of the table has updated_at >= created_at, and
\* every successful update_item or soft delete_item leaves the item with an
\* updated_at that is not earlier than the one it had, the clock never going
\* back.
C19_StampsInOrder ==
    [][ app = "main25" =>
          /\ \A r \in items25' : r.updated_at >= r.created_at
          /\ (resp'.op \in {"update_item", "delete_item"}
                /\ resp'.status = 200) =>
                \A old \in ById25(resp'.id), new \in items25' :
                    new.id = old.id => new.updated_at >= old.updated_at
      ]_vars

\* the handlers that remove a record from its store
HardDeleteOps == {"delete_order", "delete_item_permanent"}

\* C20: no update and no soft delete changes the id or the created_at of a
\* record: on every step that is not a hard delete, every order stays at its
\* place with its id (update_order, main18) and every item of the table is
\* still there with its id and its created_at (update_item, delete_item,
\* main25).
C20_IdAndCreatedAtKept ==
    [][ (resp'.op \notin HardDeleteOps) =>
          /\ \A i \in DOMAIN orders :
                i \in DOMAIN orders' /\ orders'[i].id = orders[i].id
          /\ \A old \in items25 :
                \E new \in items25' :
                    new.id = old.id /\ new.created_at = old.created_at
      ]_vars

\* an update_item has returned and has left in the table a changed item,
\* stamped later than the item's creation
C20_Witness ==
    \E t \in Threads :
        /\ At(t, "update_item", "returned")
        /\ workers[t].item[1].name # workers[t].orig[1].name
        /\ workers[t].item[1].updated_at > workers[t].item[1].created_at
        /\ workers[t].item[1] \in items25

\* the step is a write of main25 or main20 whose commit has failed with a
\* SQLAlchemyError that is no IntegrityError
CommitFails ==
    \/ \E item \in ItemCreateName : create_item_db_error(item, "commit")
    \/ \E item_id \in 1..MaxId25, item_update \in ItemUpdateName :
            update_item_db_error(item_id, item_update, "commit")
    \/ \E item_id \in 1..MaxId25 : delete_item_db_error(item_id)
    \/ \E item_id \in 1..MaxId25 : delete_item_permanent_db_error(item_id)
    \/ \E user \in UserCreate : create_user_db_error(user, "commit")
    \/ \E user_id \in 1..MaxId20, user_update \in UserCreate :
            update_user_db_error(user_id, user_update, "commit")
    \/ \E user_id \in 1..MaxId20 : delete_user_db_error(user_id)

\* the details of the responses to an IntegrityError
IntegrityDetails ==
    {"Data integrity constraint violation", "User already exists"}

\* C21: when the commit of a create, an update or a delete of main25 or main20
\* fails, the committed tables are what they were before the request and the
\* response is an error, 400 for an IntegrityError and 500 for any other
\* SQLAlchemyError, never a success.
C21_FailedCommitRolledBack ==
    [][ /\ (resp'.status = 500 /\ CommitFails) =>
                /\ items25' = items25
                /\ users20' = users20
                /\ resp'.body = <<>>
        /\ (resp' # resp /\ resp'.detail \in IntegrityDetails) =>
                /\ items25' = items25
                /\ users20' = users20
                /\ resp'.status = 400
                /\ resp'.body = <<>>
      ]_vars

\* the commit of a hard delete has failed and the row is still in the table
C21_Witness ==
    /\ resp.status = 500
    /\ \/ app = "main25" /\ resp.op = "delete_item_permanent"
            /\ ById25(resp.id) # {}
       \/ app = "main20" /\ resp.op = "delete_user"
            /\ ById20(resp.id) # {}

\* the order o satisfies the predicates that are supplied
Satisfies18(o, status, min_price, max_price) ==
    /\ ~IsNone(status) => o.status = status
    /\ ~IsNone(min_price) => (~IsNone(o.price) /\ o.price[1] >= min_price[1])
    /\ ~IsNone(max_price) => (~IsNone(o.price) /\ o.price[1] <= max_price[1])

\* C22: get_orders of main18 returns exactly the stored orders, in the order
\* of the list, that satisfy every supplied predicate (status equal, price >=
\* min_price, price <= max_price); a predicate that is not supplied restricts
\* nothing.
C22_FilterIsConjunction ==
    [][ (app = "main18" /\ resp'.op = "get_orders") =>
            \A status \in Statuses18, min_price \in Prices18,
               max_price \in Prices18 :
                get_orders(status, min_price, max_price) =>
                    LET sat(o) ==
                            Satisfies18(o, status, min_price, max_price) IN
                    /\ resp'.status = 200
                    /\ resp'.body # <<>>
                    /\ resp'.body[1].items = SelectSeq(orders, sat)
      ]_vars

\* C23: login_for_access_token of main21 returns an access token for username
\* u if and only if u is a key of the user database and the password verifies
\* against the stored hash of u; in every other case it answers 401
\* 'Incorrect username or password' and issues no token.
C23_TokenIffCredentials ==
    [][ (app = "main21" /\ resp'.op = "login_for_access_token") =>
            \A username \in Usernames21, password \in Passwords21 :
                login_for_access_token(username, password) =>
                    IF /\ username \in DOMAIN users21
                       /\ verify_password(password,
                                          users21[username].hashed_password)
                    THEN /\ resp'.status = 200
                         /\ resp'.body # <<>>
                         /\ resp'.body[1].access_token.key = SECRET_KEY
                         /\ resp'.body[1].access_token.payload.sub
                                = Some(username)
                    ELSE /\ resp'.status = 401
                         /\ resp'.detail = "Incorrect username or password"
                         /\ resp'.body = <<>>
      ]_vars

\* a token has been issued to bob
C23_Witness ==
    /\ app = "main21"
    /\ resp.op = "login_for_access_token"
    /\ resp.status = 200
    /\ resp.body[1].access_token.payload.sub = Some("bob")

\* the token is signed with the key of the script, not expired, and its sub
\* is the user u of the database
ValidFor(token, u) ==
    /\ ~IsNone(token)
    /\ token[1].key = SECRET_KEY
    /\ IsNone(token[1].payload.exp) \/ token[1].payload.exp[1] >= now
    /\ token[1].payload.sub = Some(u)
    /\ u \in DOMAIN users21

\* the step is a request to an endpoint that depends on
\* get_current_active_user
ActiveOnly(token) ==
    read_users_me(token) \/ read_own_items(token) \/ admin_endpoint(token)

\* C24: a protected endpoint of main21 returns data for user u only when the
\* token presented is validly signed, not expired, carries sub = u and u is in
\* the user database; otherwise the request ends with 401.  The endpoints that
\* depend on get_current_active_user answer 400 'Inactive user' to a user
\* whose disabled flag is true, /protected still accepts that user.
C24_ProtectedNeedsValidToken ==
    [][ (app = "main21" /\ resp'.op # "login_for_access_token") =>
            \A token \in Tokens21 :
                /\ (ActiveOnly(token) \/ protected_endpoint(token)) =>
                        IF \E u \in Usernames21 : ValidFor(token, u)
                        THEN \A u \in Usernames21 :
                                (resp'.status = 200) =>
                                    /\ ValidFor(token, u)
                                            = (resp'.body[1].username = u)
                        ELSE resp'.status = 401
                /\ ActiveOnly(token) =>
                        \A u \in Usernames21 :
                            ValidFor(token, u) =>
                                IF users21[u].disabled
                                THEN /\ resp'.status = 400
                                     /\ resp'.detail = "Inactive user"
                                ELSE /\ resp'.status = 200
                                     /\ resp'.body[1].username = u
                /\ protected_endpoint(token) =>
                        \A u \in Usernames21 :
                            ValidFor(token, u) =>
                                /\ resp'.status = 200
                                /\ resp'.body[1].username = u
      ]_vars

\* /protected has just greeted a user whose disabled flag is true
C24_Witness ==
    /\ app = "main21"
    /\ resp.op = "protected_endpoint"
    /\ resp.status = 200
    /\ users21[resp.body[1].username].disabled

\* the operations that answer GET /items/{item_id} in main24
GetItemOps24 == {"read_item", "get_expensive_item"}

\* C25: in main24, GET /items/{item_id} returns the item only if its price is
\* greater than 100: for an item of the list with price <= 100 the request
\* ends with 400 'Item is not expensive enough', for an id that is not in the
\* list with 404.
C25_OnlyExpensiveItems ==
    [][ (app = "main24" /\ resp'.op \in GetItemOps24) =>
            \A item_id \in 1..MaxRows24 :
                get_item24(item_id) =>
                    LET i == FirstIndex(items_db, item_id) IN
                    IF i = 0 THEN resp'.status = 404
                    ELSE IF items_db[i].price <= 100
                    THEN /\ resp'.status = 400
                         /\ resp'.detail = "Item is not expensive enough"
                    ELSE /\ resp'.status = 200
                         /\ resp'.body = <<items_db[i]>>
      ]_vars

\* the messages the client has sent on the connection so far
Received26 == ws22.read \o ws22.inbox

\* C26: in main22 websocket_endpoint, after the connection is accepted every
\* text message received from the client is answered by exactly one reply
\* 'Message received: <data>' carrying that message's data, the replies are
\* sent in the order of the messages, and the reply to message n is sent
\* before message n+1 is read. A message is left without its reply only when
\* the client has closed the connection.
C26_EveryMessageAnswered ==
    /\ [](/\ Len(ws22.sent) <= Len(ws22.read)
          /\ Len(ws22.read) <= Len(ws22.sent) + 1
          /\ \A n \in 1..Len(ws22.sent) :
                ws22.sent[n] = "Message received: " \o ws22.read[n]
          /\ ws22.pc \in {"none", "accept"} => Received26 = <<>>)
    /\ [][Len(ws22'.read) > Len(ws22.read) =>
            /\ Len(ws22.sent) = Len(ws22.read)
            /\ ws22'.read = Append(ws22.read, Head(ws22.inbox))]_vars
    /\ \A n \in 1..MaxMessages22 :
            (Len(Received26) >= n)
                ~> (Len(ws22.sent) >= n \/ ws22.client = "closed")

\* two different messages have been answered and the connection is open
C26_Witness ==
    /\ ws22.client = "open"
    /\ ws22.pc = "receive"
    /\ ws22.read = <<"a", "b">>
    /\ ws22.sent = <<"Message received: a", "Message received: b">>

\* the emails sent by the tasks of request n
Runs27(n) == {i \in DOMAIN mail22.sent : mail22.sent[i].request = n}

\* C27: in main22 send_email_endpoint, each request adds exactly one
\* send_email2 task with the request's email and message, the response 'Email
\* will be sent in the background' is returned before the task has run, and,
\* the background tasks being run fairly, the task of every request runs in
\* the end, once.
C27_OneEmailPerRequest ==
    /\ [][\A email \in Emails22, message \in Messages22 :
            send_email_endpoint(email, message) =>
                LET n == Len(mail22.requests) + 1 IN
                /\ Len(mail22'.requests) = n
                /\ SubSeq(mail22'.requests, 1, n - 1) = mail22.requests
                /\ mail22'.requests[n].tasks =
                        <<[func |-> "send_email2",
                           args |-> <<email, message>>]>>
                /\ resp'.status = 200
                /\ resp'.body =
                        <<[message |->
                             "Email will be sent in the background"]>>
                /\ mail22'.sent = mail22.sent
                /\ Runs27(n) = {}]_vars
    /\ [](\A n \in DOMAIN mail22.requests :
            /\ Cardinality(Runs27(n)) <= 1
            /\ \A i \in Runs27(n) :
                    mail22.sent[i].out =
                        "Sending email to " \o mail22.requests[n].email
                            \o ": " \o mail22.requests[n].message)
    /\ \A n \in 1..MaxRequests22 :
            (Len(mail22.requests) >= n) ~> [](Cardinality(Runs27(n)) = 1)

\* two requests with different parameters, both emails sent, the second
\* request's first
C27_Witness ==
    /\ Len(mail22.requests) = 2
    /\ mail22.requests[1].email # mail22.requests[2].email
    /\ mail22.requests[1].message # mail22.requests[2].message
    /\ Len(mail22.sent) = 2
    /\ mail22.sent[1].request = 2
    /\ mail22.sent[2].request = 1

\* the orders of the list with the id k
OrdersWithId28(lst, k) == {lst[i] : i \in {j \in DOMAIN lst : lst[j].id = k}}

\* C28: in main18, update_order(id, patch) writes the order with the given id
\* and no other, whatever delete_order and create_order calls run at the same
\* time: no order with another id is overwritten or lost by the assignment,
\* and the list never holds two orders with the same id.
C28_UpdateWritesItsOrderOnly ==
    /\ [](\A i, j \in DOMAIN orders :
            orders[i].id = orders[j].id => i = j)
    /\ [][\A t \in Threads :
            update_order_assign(t) =>
                \A k \in 1..MaxId18 :
                    k # workers[t].id =>
                        OrdersWithId28(orders', k) = OrdersWithId28(orders, k)
         ]_vars

\* the update_order call of thread t has returned its order
Returned29(t) == At(t, "update_order", "returned")

\* C29: in main18, when two update_order calls on the same order id run at
\* the same time with patches over disjoint fields, the stored order reflects
\* both patches once both have returned: every field either patch sets has the
\* value that patch gave it, whatever the order of their steps.
C29_NoLostUpdate ==
    \A t1, t2 \in Threads :
        (/\ t1 # t2
         /\ Returned29(t1) /\ Returned29(t2)
         /\ workers[t1].id = workers[t2].id
         /\ SetFields(workers[t1].body[1]) # {}
         /\ SetFields(workers[t2].body[1]) # {}
         /\ SetFields(workers[t1].body[1])
                \cap SetFields(workers[t2].body[1]) = {})
        => LET order == orders[FirstIndex(orders, workers[t1].id)] IN
           \A t \in {t1, t2} :
               \A f \in SetFields(workers[t].body[1]) :
                   order[f] = workers[t].body[1][f][1]

\* C30: in main25 get_statistics, the counts of a response are consistent
\* with each other in every execution, also when create, soft-delete or
\* permanent-delete requests commit between its queries: inactive_items is not
\* negative, active_items is at most total_items, and total_items =
\* active_items + inactive_items.
C30_StatisticsConsistent ==
    (resp.op = "get_statistics" /\ resp.status = 200) =>
        LET stats == resp.body[1] IN
        /\ stats.inactive_items >= 0
        /\ stats.active_items <= stats.total_items
        /\ stats.total_items = stats.active_items + stats.inactive_items

=============================================================================
